---- MODULE Spec2Model ----
(***************************************************************************)
(* A model of OpenFOAMPost: the batch driver (ofpost/__main__.py), the     *)
(* library functions it routes files to (ofpost/lib.py) and the live       *)
(* residual monitor (live_residuals.py).                                   *)
(*                                                                         *)
(* Text is modelled as a sequence of one-character strings, so that the    *)
(* string operations of the source (replace, endswith, removesuffix,       *)
(* split, regular-expression search, float parsing) are computed rather    *)
(* than assumed.                                                           *)
(***************************************************************************)
EXTENDS Integers, Sequences, FiniteSets, TLC

\* ------------------------------------------------------------------
\* Text helpers (Python str operations used by the source)
\* ------------------------------------------------------------------

\* All strings over `alphabet` of length at most n.
Strings(alphabet, n) == UNION {[1..k -> alphabet] : k \in 0..n}

\* str.startswith
StartsWith(s, p) == Len(p) <= Len(s) /\ SubSeq(s, 1, Len(p)) = p

\* str.endswith
EndsWith(s, p) == Len(p) <= Len(s) /\ SubSeq(s, Len(s) - Len(p) + 1, Len(s)) = p

\* str.removesuffix
RemoveSuffix(s, p) == IF EndsWith(s, p) THEN SubSeq(s, 1, Len(s) - Len(p)) ELSE s

\* str.removeprefix
RemovePrefix(s, p) == IF StartsWith(s, p) THEN SubSeq(s, Len(p) + 1, Len(s)) ELSE s

\* str.replace(c, '') for a one-character c
RECURSIVE RemoveChar(_, _)
RemoveChar(s, c) ==
    IF s = <<>> THEN <<>>
    ELSE (IF Head(s) = c THEN <<>> ELSE <<Head(s)>>) \o RemoveChar(Tail(s), c)

\* The concatenation of a sequence of strings.
RECURSIVE Concat(_)
Concat(ss) == IF ss = <<>> THEN <<>> ELSE Head(ss) \o Concat(Tail(ss))

\* re.search(r'\((.*?)\)', s): the leftmost '(' that has a ')' after it, and
\* the text up to the first ')' that follows it (lazy group).
ReSearchParen(s) ==
    LET opens == {i \in 1..Len(s) : s[i] = "(" /\ \E j \in (i+1)..Len(s) : s[j] = ")"}
    IN  IF opens = {} THEN [found |-> FALSE, group |-> <<>>]
        ELSE LET i == CHOOSE a \in opens : \A b \in opens : a <= b
                 j == CHOOSE a \in (i+1)..Len(s) :
                          s[a] = ")" /\ \A b \in (i+1)..(a-1) : s[b] # ")"
             IN  [found |-> TRUE, group |-> SubSeq(s, i + 1, j - 1)]

\* ------------------------------------------------------------------
\* Constants imported from the ofpost package (ofpost/__init__.py)
\* ------------------------------------------------------------------

\* UNITS_OF_MEASURE: the static name -> unit table.
UNITS_OF_MEASURE ==
    (<<"U">> :> <<"m", "/", "s">>) @@ (<<"p">> :> <<"P", "a">>)
    @@ (<<"T", "i", "m", "e">> :> <<"s">>)

\* COMPONENTS_EXT: the vector-component suffixes, in order.
COMPONENTS_EXT == << <<"_", "x">>, <<"_", "y">>, <<"_", "z">> >>

\* EXTENSION: the fixed extension of every output file.
EXTENSION == <<".", "p", "n", "g">>

\* ------------------------------------------------------------------
\* File-name patterns of the options (ofpost/options.py)
\* ------------------------------------------------------------------

VTK_FILE == <<"*", ".", "v", "t", "k">>
CLOUD_FILE == <<"c", "l", "o", "u", "d", "_", "*", ".", "v", "t", "k">>
RES_FILE == <<"r", "e", "s", "i", "d", "u", "a", "l", "s", ".", "d", "a", "t">>
DAT_FILE == <<"*", ".", "d", "a", "t">>
XY_FILE == <<"*", ".", "x", "y">>
FORCE_FILE == <<"f", "o", "r", "c", "e", "s", ".", "d", "a", "t">>

\* ------------------------------------------------------------------
\* get_units
\* ------------------------------------------------------------------

\* ' [' + UNITS_OF_MEASURE[key] + ']'
UnitsText(key) == <<" ", "[">> \o UNITS_OF_MEASURE[key] \o <<"]">>

\* A mutant of StripComponent: the suffix is looked for but never removed.
StripComponentKeep(array_name) == array_name

\* The loop over COMPONENTS_EXT: the first suffix the name ends with is
\* removed, and the loop breaks.
StripComponent(array_name) ==
    LET hits == {k \in 1..Len(COMPONENTS_EXT) : EndsWith(array_name, COMPONENTS_EXT[k])}
    IN  IF hits = {} THEN array_name
        ELSE RemoveSuffix(array_name,
                          COMPONENTS_EXT[CHOOSE k \in hits : \A h \in hits : k <= h])

\* get_units(array_name): the units text, and the keys looked up in
\* UNITS_OF_MEASURE, in order.  array_name is reassigned to the group of the
\* regular expression when it matches, and the suffix loop works on that value.
GetUnitsTrace(array_name) ==
    IF array_name \in DOMAIN UNITS_OF_MEASURE
    THEN [units |-> UnitsText(array_name), keys |-> <<array_name>>]
    ELSE LET match == ReSearchParen(array_name)
             name2 == IF match.found THEN match.group ELSE array_name
             keys2 == IF match.found THEN <<array_name, name2>> ELSE <<array_name>>
         IN  IF match.found /\ name2 \in DOMAIN UNITS_OF_MEASURE
             THEN [units |-> UnitsText(name2), keys |-> keys2]
             ELSE LET name3 == StripComponent(name2)
                  IN  [units |-> IF name3 \in DOMAIN UNITS_OF_MEASURE
                                 THEN UnitsText(name3) ELSE <<>>,
                       keys  |-> Append(keys2, name3)]

GetUnits(array_name) == GetUnitsTrace(array_name).units

\* ------------------------------------------------------------------
\* float(str) and str.lower, as Python computes them
\* ------------------------------------------------------------------

UpperChars == <<"A", "B", "C", "D", "E", "F", "G", "H", "I", "J", "K", "L", "M",
                "N", "O", "P", "Q", "R", "S", "T", "U", "V", "W", "X", "Y", "Z">>
LowerChars == <<"a", "b", "c", "d", "e", "f", "g", "h", "i", "j", "k", "l", "m",
                "n", "o", "p", "q", "r", "s", "t", "u", "v", "w", "x", "y", "z">>

LowerChar(c) ==
    IF \E i \in 1..Len(UpperChars) : UpperChars[i] = c
    THEN LowerChars[CHOOSE i \in 1..Len(UpperChars) : UpperChars[i] = c]
    ELSE c

\* str.lower
Lower(s) == [i \in 1..Len(s) |-> LowerChar(s[i])]

WhiteSpace == {" ", "\t", "\n"}

\* str.strip
RECURSIVE LStrip(_)
LStrip(s) == IF s # <<>> /\ Head(s) \in WhiteSpace THEN LStrip(Tail(s)) ELSE s
RECURSIVE RStrip(_)
RStrip(s) ==
    IF s # <<>> /\ s[Len(s)] \in WhiteSpace THEN RStrip(SubSeq(s, 1, Len(s) - 1)) ELSE s
Strip(s) == RStrip(LStrip(s))

DigitChars == <<"0", "1", "2", "3", "4", "5", "6", "7", "8", "9">>
IsDigit(c) == \E i \in 1..Len(DigitChars) : DigitChars[i] = c
DigitVal(c) == (CHOOSE i \in 1..Len(DigitChars) : DigitChars[i] = c) - 1

\* A run of decimal digits in which single underscores may separate digits.
IsDigitRun(s) ==
    /\ s # <<>>
    /\ \A i \in 1..Len(s) : IsDigit(s[i]) \/ s[i] = "_"
    /\ IsDigit(s[1]) /\ IsDigit(s[Len(s)])
    /\ \A i \in 1..(Len(s) - 1) : ~(s[i] = "_" /\ s[i+1] = "_")

\* The number a digit run denotes.
RECURSIVE DigitRunVal(_, _)
DigitRunVal(s, acc) ==
    IF s = <<>> THEN acc
    ELSE DigitRunVal(Tail(s), IF Head(s) = "_" THEN acc ELSE 10 * acc + DigitVal(Head(s)))

\* The first index of s holding a character of cs, or 0.
FirstIndexOf(s, cs) ==
    IF \E i \in 1..Len(s) : s[i] \in cs
    THEN CHOOSE i \in 1..Len(s) : s[i] \in cs /\ \A j \in 1..(i-1) : s[j] \notin cs
    ELSE 0

\* mant * 10^exp with the trailing zeros of mant moved into exp (0 is 0 * 10^0).
RECURSIVE Normalize(_, _)
Normalize(mant, exp) ==
    IF mant = 0 THEN [mant |-> 0, exp |-> 0]
    ELSE IF mant % 10 = 0 THEN Normalize(mant \div 10, exp + 1)
    ELSE [mant |-> mant, exp |-> exp]

\* float(s): ok is FALSE where Python raises ValueError.  A finite value is the
\* exact decimal neg, mant * 10^exp (binary rounding is not modelled); kind tells
\* a finite number from nan and inf.
PyFloat(s) ==
    LET bad == [ok |-> FALSE, kind |-> "error", neg |-> FALSE, mant |-> 0, exp |-> 0]
        \* The digits of the number: integer part, fraction part, exponent.
        Digits(neg, ipart, fpart, xtext, hasexp) ==
            LET fdig == RemoveChar(fpart, "_")
                xneg == xtext # <<>> /\ xtext[1] = "-"
                xdig == IF xtext # <<>> /\ xtext[1] \in {"+", "-"} THEN Tail(xtext) ELSE xtext
                mok  == /\ ipart = <<>> \/ IsDigitRun(ipart)
                        /\ fpart = <<>> \/ IsDigitRun(fpart)
                        /\ ipart # <<>> \/ fpart # <<>>
                xok  == ~hasexp \/ IsDigitRun(xdig)
            IN  IF ~(mok /\ xok) THEN bad
                ELSE LET xval == IF ~hasexp THEN 0
                                 ELSE (IF xneg THEN -1 ELSE 1) * DigitRunVal(xdig, 0)
                         n    == Normalize(DigitRunVal(ipart \o fdig, 0), xval - Len(fdig))
                     IN  [ok |-> TRUE, kind |-> "num", neg |-> neg /\ n.mant # 0,
                          mant |-> n.mant, exp |-> n.exp]
        \* The mantissa is cut at its first '.'.
        Mantissa(neg, mtext, dpos, xtext, hasexp) ==
            Digits(neg,
                   IF dpos = 0 THEN mtext ELSE SubSeq(mtext, 1, dpos - 1),
                   IF dpos = 0 THEN <<>> ELSE SubSeq(mtext, dpos + 1, Len(mtext)),
                   xtext, hasexp)
        \* The text after the sign is cut at its first 'e' or 'E'.
        Exponent(neg, body, epos) ==
            Mantissa(neg,
                     IF epos = 0 THEN body ELSE SubSeq(body, 1, epos - 1),
                     FirstIndexOf(IF epos = 0 THEN body ELSE SubSeq(body, 1, epos - 1), {"."}),
                     IF epos = 0 THEN <<>> ELSE SubSeq(body, epos + 1, Len(body)),
                     epos # 0)
        Unsigned(neg, body, low) ==
            IF low = <<"n", "a", "n">>
            THEN [ok |-> TRUE, kind |-> "nan", neg |-> FALSE, mant |-> 0, exp |-> 0]
            ELSE IF low \in {<<"i", "n", "f">>, <<"i", "n", "f", "i", "n", "i", "t", "y">>}
            THEN [ok |-> TRUE, kind |-> "inf", neg |-> neg, mant |-> 0, exp |-> 0]
            ELSE Exponent(neg, body, FirstIndexOf(body, {"e", "E"}))
        Signed(t, body) == Unsigned(t # <<>> /\ t[1] = "-", body, Lower(body))
        Stripped(t) == Signed(t, IF t # <<>> /\ t[1] \in {"+", "-"} THEN Tail(t) ELSE t)
    IN  Stripped(Strip(s))

\* ------------------------------------------------------------------
\* pathlib: a path is the sequence of its components
\* ------------------------------------------------------------------

\* Path.name
PathName(path) == IF path = <<>> THEN <<>> ELSE path[Len(path)]

\* Path.parent (the parent of '.' is '.')
PathParent(path) == IF path = <<>> THEN <<>> ELSE SubSeq(path, 1, Len(path) - 1)

\* Path.stem: the name up to its last dot, when that dot is neither the first
\* nor the last character.
PathStem(path) ==
    LET name == PathName(path)
        dots == {i \in 1..Len(name) : name[i] = "."}
        last == IF dots = {} THEN 0 ELSE CHOOSE i \in dots : \A j \in dots : j <= i
    IN  IF 1 < last /\ last < Len(name) THEN SubSeq(name, 1, last - 1) ELSE name

\* ------------------------------------------------------------------
\* get_output_filepath
\* ------------------------------------------------------------------

\* A mutant of CleanSuffix: the backslash is left in the suffix.
CleanSuffixNoBackslash(filesuffix) == RemoveChar(RemoveChar(filesuffix, "/"), " ")

\* The three filesuffix.replace(..., '') calls.
CleanSuffix(filesuffix) ==
    RemoveChar(RemoveChar(RemoveChar(filesuffix, "/"), "\\"), " ")

\* get_output_filepath(filepath, filesuffix)
GetOutputFilepath(filepath, filesuffix) ==
    LET Output(filename, timestep, outpath) ==
            LET name1 == IF filesuffix # <<>>
                         THEN filename \o <<"_">> \o CleanSuffix(filesuffix)
                         ELSE filename
                name2 == IF timestep # <<"0">> THEN name1 \o <<"_">> \o timestep ELSE name1
            IN  [outfilepath |-> Append(outpath, name2 \o EXTENSION),
                 filename    |-> filename,
                 timestep    |-> timestep,
                 outdirname  |-> PathName(outpath)]
        \* timestep: the name of the parent directory when float accepts it.
        Timestep(dirname) == IF PyFloat(dirname).ok THEN dirname ELSE <<"0">>
    IN  Output(PathStem(filepath), Timestep(PathName(PathParent(filepath))),
               PathParent(PathParent(filepath)))

\* ------------------------------------------------------------------
\* read_labels
\* ------------------------------------------------------------------

\* str.split(): the maximal runs of non-whitespace characters.
RECURSIVE SplitAcc(_, _, _)
SplitAcc(s, cur, acc) ==
    IF s = <<>> THEN (IF cur = <<>> THEN acc ELSE Append(acc, cur))
    ELSE IF Head(s) \in WhiteSpace
         THEN SplitAcc(Tail(s), <<>>, IF cur = <<>> THEN acc ELSE Append(acc, cur))
         ELSE SplitAcc(Tail(s), Append(cur, Head(s)), acc)
Split(s) == SplitAcc(s, <<>>, <<>>)

\* re.match(r'\[.*\]', label): '[' first and a ']' somewhere after it.
IsUnitsToken(label) ==
    /\ label # <<>>
    /\ label[1] = "["
    /\ \E j \in 2..Len(label) : label[j] = "]"

\* The lines read before the loop breaks: the leading lines that start with '#'.
RECURSIVE LeadingComments(_)
LeadingComments(lines) ==
    IF lines = <<>> \/ Head(lines) = <<>> \/ Head(lines)[1] # "#" THEN <<>>
    ELSE <<Head(lines)>> \o LeadingComments(Tail(lines))

\* The loop over orig_labels: labels[-1] raises IndexError on an empty list,
\* outside the try block.
RECURSIVE MergeLabels(_, _)
MergeLabels(orig_labels, labels) ==
    IF orig_labels = <<>> THEN [raised |-> FALSE, labels |-> labels]
    ELSE IF ~IsUnitsToken(Head(orig_labels))
         THEN MergeLabels(Tail(orig_labels), Append(labels, Head(orig_labels)))
    ELSE IF labels = <<>> THEN [raised |-> TRUE, labels |-> <<>>]
    ELSE MergeLabels(Tail(orig_labels),
            [labels EXCEPT ![Len(labels)] = @ \o <<" ">> \o Head(orig_labels)])

\* read_labels(filepath), on the lines of the file (each with its newline).
\* orig_labels is unbound when no line was a comment: the NameError is caught
\* and the empty list returned.
ReadLabels(lines) ==
    LET comments == LeadingComments(lines)
    IN  IF comments = <<>> THEN [raised |-> FALSE, labels |-> <<>>]
        ELSE MergeLabels(Split(RemovePrefix(Strip(comments[Len(comments)]), <<"#">>)),
                         <<>>)

\* ------------------------------------------------------------------
\* find_files
\* ------------------------------------------------------------------

\* fnmatch on one path segment: '*' is any run of characters, '?' any one.
RECURSIVE GlobMatch(_, _)
GlobMatch(pattern, name) ==
    IF pattern = <<>> THEN name = <<>>
    ELSE IF Head(pattern) = "*"
         THEN GlobMatch(Tail(pattern), name)
              \/ (name # <<>> /\ GlobMatch(pattern, Tail(name)))
    ELSE IF Head(pattern) = "?"
         THEN name # <<>> /\ GlobMatch(Tail(pattern), Tail(name))
    ELSE name # <<>> /\ Head(pattern) = Head(name)
         /\ GlobMatch(Tail(pattern), Tail(name))

\* A mutant of FileMatch: the match is case-sensitive.
FileMatchCaseSensitive(file, pattern) == GlobMatch(pattern, file)

\* Path(file).match(pattern, case_sensitive=False), file a bare file name.
FileMatch(file, pattern) == GlobMatch(Lower(pattern), Lower(file))

\* A mutant of IsException: only the first exclusion pattern is tried.
IsExceptionFirstOnly(file, exceptions) ==
    exceptions # <<>> /\ FileMatch(file, exceptions[1])

\* any([file.match(exc, case_sensitive=False) for exc in exceptions])
IsException(file, exceptions) ==
    \E i \in 1..Len(exceptions) : FileMatch(file, exceptions[i])

\* ------------------------------------------------------------------
\* read_file_decorator
\* ------------------------------------------------------------------

\* A mutant of Wrapper: the exception of read_file leaves the wrapper.
WrapperPropagates(raised) == IF raised THEN "raised" ELSE "returned"

\* wrapper(filepath): an Exception raised by read_file is caught and printed,
\* and the wrapper returns.
Wrapper(raised) == "returned"

\* ------------------------------------------------------------------
\* live_residuals.py: read_data
\* ------------------------------------------------------------------

\* line.startswith('#')
IsCommentLine(line) == StartsWith(line, <<"#">>)
IsDataLine(line) == ~IsCommentLine(line)

\* np.nan
NaN == [ok |-> TRUE, kind |-> "nan", neg |-> FALSE, mant |-> 0, exp |-> 0]

\* A mutant of IsNA: the token is compared without lower().
IsNACaseSensitive(value) == value = <<"n", "/", "a">>

\* value.lower() == 'n/a'
IsNA(value) == Lower(value) = <<"n", "/", "a">>

\* zip(*data_lines): as many columns as the shortest row has tokens.
Transpose(rows) ==
    LET width == IF rows = <<>> THEN 0
                 ELSE CHOOSE n \in {Len(rows[r]) : r \in 1..Len(rows)} :
                         \A r \in 1..Len(rows) : n <= Len(rows[r])
    IN  [c \in 1..width |-> [r \in 1..Len(rows) |-> rows[r][c]]]

\* read_data(filepath) on the lines of the file: the field names and the
\* columns, or the ValueError it raises.
ReadData(lines) ==
    LET comments    == SelectSeq(lines, IsCommentLine)
        header      == [i \in 1..Len(comments) |-> Strip(comments[i])]
        datas       == SelectSeq(lines, IsDataLine)
        data_lines  == [i \in 1..Len(datas) |-> Split(datas[i])]
        failed      == [raised |-> TRUE, field_names |-> <<>>, numeric_data |-> <<>>]
    IN  IF ~(Len(header) >= 2 /\ StartsWith(header[Len(header)], <<"#">>)) THEN failed
        ELSE LET transposed_data == Transpose(data_lines)
             IN  IF \E c \in 1..Len(transposed_data) :
                       \E r \in 1..Len(transposed_data[c]) :
                          /\ ~IsNA(transposed_data[c][r])
                          /\ ~PyFloat(transposed_data[c][r]).ok
                 THEN failed
                 ELSE [raised |-> FALSE,
                       field_names |-> Split(RemoveChar(header[Len(header)], "#")),
                       numeric_data |->
                           [c \in 1..Len(transposed_data) |->
                               [r \in 1..Len(transposed_data[c]) |->
                                   IF IsNA(transposed_data[c][r]) THEN NaN
                                   ELSE PyFloat(transposed_data[c][r])]]]

\* ------------------------------------------------------------------
\* pandas.read_csv(comment='#', delimiter=r'\t+|\s+', engine='python') on
\* files whose rows all have as many fields as the first one and whose columns
\* each hold numbers only or text only
\* ------------------------------------------------------------------

\* The cells of a DataFrame: a number, a text, or NaN.
Num(n) == [kind |-> "num", num |-> n, str |-> <<>>]
Str(s) == [kind |-> "str", num |-> 0, str |-> s]
NaNCell == [kind |-> "nan", num |-> 0, str |-> <<>>]

\* The value read_csv gives a field: empty fields are NaN, digit runs numbers.
ParseCell(field) ==
    IF field = <<>> THEN NaNCell
    ELSE IF IsDigitRun(field) THEN Num(DigitRunVal(field, 0))
    ELSE Str(field)

RECURSIVE DropTabs(_)
DropTabs(s) == IF s # <<>> /\ Head(s) = "\t" THEN DropTabs(Tail(s)) ELSE s

\* re.split(r'\t+|\s+', s): at a tab the first alternative takes the run of
\* tabs only, so white space after it delimits an empty field.
RECURSIVE CsvSplitAcc(_, _, _)
CsvSplitAcc(s, cur, acc) ==
    IF s = <<>> THEN Append(acc, cur)
    ELSE IF Head(s) = "\t" THEN CsvSplitAcc(DropTabs(s), <<>>, Append(acc, cur))
    ELSE IF Head(s) \in WhiteSpace THEN CsvSplitAcc(LStrip(s), <<>>, Append(acc, cur))
    ELSE CsvSplitAcc(Tail(s), Append(cur, Head(s)), acc)

\* The fields of a line: the line is stripped, then split.
CsvSplit(line) == CsvSplitAcc(Strip(line), <<>>, <<>>)

\* comment='#': the first field holding '#' is cut at it, dropped when nothing
\* is left of it, and ends the row.
CsvUncomment(fields) ==
    LET hits == {i \in 1..Len(fields) : \E j \in 1..Len(fields[i]) : fields[i][j] = "#"}
    IN  IF hits = {} THEN fields
        ELSE LET i   == CHOOSE h \in hits : \A g \in hits : h <= g
                 cut == SubSeq(fields[i], 1, FirstIndexOf(fields[i], {"#"}) - 1)
             IN  SubSeq(fields, 1, i - 1) \o (IF cut = <<>> THEN <<>> ELSE <<cut>>)

\* A row that is kept: empty rows and rows of one blank field are skipped.
IsCsvRow(fields) == fields # <<>> /\ fields # << <<>> >>

\* The rows of fields read_csv sees.
CsvRows(lines) ==
    SelectSeq([i \in 1..Len(lines) |-> CsvUncomment(CsvSplit(lines[i]))], IsCsvRow)

\* The cells of the rows.
CsvCells(rows) ==
    [r \in 1..Len(rows) |-> [c \in 1..Len(rows[r]) |-> ParseCell(rows[r][c])]]

\* read_csv without names: the first row is the header and gives the column
\* names; no row at all is an EmptyDataError.
ReadCsvHeader(lines) ==
    LET rows == CsvRows(lines)
    IN  IF rows = <<>> THEN [raised |-> TRUE, columns |-> <<>>, rows |-> <<>>]
        ELSE [raised |-> FALSE, columns |-> rows[1], rows |-> CsvCells(Tail(rows))]

\* ------------------------------------------------------------------
\* plot_data
\* ------------------------------------------------------------------

\* The labels of the force and moment tables.
FORCE_LABEL == <<"F">>
MOMENT_LABEL == <<"M">>

\* plot_data(df, filepath, semilogy, append_units, filesuffix): the figure it
\* saves, with the table it was handed.  IS_STEADY is passed as is_steady.
PlotData(df, filepath, semilogy, append_units, filesuffix, is_steady) ==
    LET Label(name, units) == IF units THEN name \o GetUnits(name) ELSE name
        Figure(xname, out) ==
            [columns     |-> df.columns,
             rows        |-> df.rows,
             labels      |-> [k \in 1..(Len(df.columns) - 1) |->
                                 Label(df.columns[k + 1], append_units)],
             semilogy    |-> semilogy,
             title       |-> IF out.timestep # <<"0">>
                             THEN out.outdirname \o <<"@">> \o out.timestep
                                  \o UNITS_OF_MEASURE[<<"T", "i", "m", "e">>]
                                  \o <<" ", "(">> \o out.filename \o <<")">>
                             ELSE out.outdirname,
             xlabel      |-> Label(xname, TRUE),
             filesuffix  |-> filesuffix,
             outfilepath |-> out.outfilepath]
    IN  Figure(IF is_steady /\ df.columns[1] = <<"T", "i", "m", "e">>
               THEN <<"I", "t", "e", "r", "a", "t", "i", "o", "n", "s">>
               ELSE df.columns[1],
               GetOutputFilepath(filepath, filesuffix))

\* ------------------------------------------------------------------
\* read_forces
\* ------------------------------------------------------------------

ForcesWord == <<"f", "o", "r", "c", "e", "s", "(">>

\* Where 'forces(' starts in a line with a ')' after it.
ForcesAt(line) ==
    {i \in 1..Len(line) :
        /\ i + Len(ForcesWord) - 1 <= Len(line)
        /\ SubSeq(line, i, i + Len(ForcesWord) - 1) = ForcesWord
        /\ \E j \in (i + Len(ForcesWord))..Len(line) : line[j] = ")"}

\* re.search(r'forces\((.*?)\)', content): the group of the first match ('.'
\* matches no newline, so the match lies in one line).
ReSearchForces(lines) ==
    LET hits == {l \in 1..Len(lines) : ForcesAt(lines[l]) # {}}
    IN  IF hits = {} THEN [found |-> FALSE, group |-> <<>>]
        ELSE LET l    == CHOOSE h \in hits : \A g \in hits : h <= g
                 line == lines[l]
                 i    == CHOOSE a \in ForcesAt(line) : \A b \in ForcesAt(line) : a <= b
                 from == i + Len(ForcesWord)
                 j    == CHOOSE a \in from..Len(line) :
                            line[a] = ")" /\ \A b \in from..(a - 1) : line[b] # ")"
             IN  [found |-> TRUE, group |-> SubSeq(line, from, j - 1)]

\* n_contribs: the number of entries of the group, 0 without a match.
NContribs(lines) ==
    LET contribs == ReSearchForces(lines)
    IN  IF contribs.found THEN Len(Split(contribs.group)) ELSE 0

\* content.replace('(', ' ').replace(')', ' ')
ReplaceBrackets(line) ==
    [i \in 1..Len(line) |-> IF line[i] \in {"(", ")"} THEN " " ELSE line[i]]

\* A mutant of SumAxes: the summed columns are taken side by side.
SumAxesAdjacent(index, n_contribs) == [n \in 1..n_contribs |-> index + (n - 1)]

\* sum_axes = [index + 3*n for n in range(n_contribs)]
SumAxes(index, n_contribs) == [n \in 1..n_contribs |-> index + 3 * (n - 1)]

\* Series.sum: NaN counts as nothing.
RECURSIVE SumCells(_)
SumCells(cells) ==
    IF cells = <<>> THEN 0
    ELSE (IF Head(cells).kind = "num" THEN Head(cells).num ELSE 0) + SumCells(Tail(cells))

\* sum_contribs(start_index, label, n_contribs) on data: iloc raises
\* IndexError for a position past the last column.
SumContribs(data, start_index, label, n_contribs) ==
    LET width == Len(data.columns)
        axes  == [k \in 1..Len(COMPONENTS_EXT) |-> SumAxes(start_index + (k - 1), n_contribs)]
    IN  IF \E k \in 1..Len(axes) : \E n \in 1..Len(axes[k]) : axes[k][n] >= width
        THEN [raised |-> TRUE, columns |-> <<>>, rows |-> <<>>]
        ELSE [raised  |-> FALSE,
              columns |-> << <<"T", "i", "m", "e">> >>
                          \o [k \in 1..Len(COMPONENTS_EXT) |-> label \o COMPONENTS_EXT[k]],
              rows    |-> [r \in 1..Len(data.rows) |->
                             <<data.rows[r][1]>>
                             \o [k \in 1..Len(COMPONENTS_EXT) |->
                                   Num(SumCells([n \in 1..Len(axes[k]) |->
                                                   data.rows[r][axes[k][n] + 1]]))]]]

\* read_forces(filepath): the figures it saves, and whether it raised.
ReadForces(filepath, lines, is_steady) ==
    LET Plot(df, filesuffix) == PlotData(df, filepath, FALSE, TRUE, filesuffix, is_steady)
        \* The two plot_data calls: an IndexError ends the function where it is raised.
        Plots(forces, moments) ==
            IF forces.raised THEN [raised |-> TRUE, plots |-> <<>>]
            ELSE [raised |-> moments.raised,
                  plots  |-> [k \in 1..(IF moments.raised THEN 1 ELSE 2) |->
                                Plot(IF k = 1 THEN forces ELSE moments,
                                     IF k = 1 THEN <<"f", "o", "r", "c", "e", "s">>
                                     ELSE <<"m", "o", "m", "e", "n", "t", "s">>)]]
        Sums(n_contribs, data) ==
            IF data.raised THEN [raised |-> TRUE, plots |-> <<>>]
            ELSE Plots(SumContribs(data, 1, FORCE_LABEL, n_contribs),
                       SumContribs(data, 1 + 3 * n_contribs, MOMENT_LABEL, n_contribs))
    IN  Sums(NContribs(lines),
             ReadCsvHeader([i \in 1..Len(lines) |-> ReplaceBrackets(lines[i])]))

\* ------------------------------------------------------------------
\* read_dat, on files with a label row that has one label per column
\* ------------------------------------------------------------------

\* read_csv(names=labels): every row is data.
ReadCsvNames(lines, labels) ==
    [raised |-> FALSE, columns |-> labels, rows |-> CsvCells(CsvRows(lines))]

\* name in data.columns
HasColumn(columns, name) == \E i \in 1..Len(columns) : columns[i] = name

\* The position of the column called name.
ColumnOf(columns, name) ==
    CHOOSE i \in 1..Len(columns) :
        columns[i] = name /\ \A j \in 1..(i - 1) : columns[j] # name

\* data[name]: the cells of a column.
Column(data, name) ==
    [r \in 1..Len(data.rows) |-> data.rows[r][ColumnOf(data.columns, name)]]

RECURSIVE DropDuplicatesAcc(_, _)
DropDuplicatesAcc(values, acc) ==
    IF values = <<>> THEN acc
    ELSE DropDuplicatesAcc(Tail(values),
            IF \E i \in 1..Len(acc) : acc[i] = Head(values) THEN acc
            ELSE Append(acc, Head(values)))

\* A mutant of DropDuplicates: every value is kept.
DropDuplicatesKeep(values) == values

\* Series.drop_duplicates(): the values in the order of their first occurrence
\* (reset_index numbers them from 0).
DropDuplicates(values) == DropDuplicatesAcc(values, <<>>)

TargetColumns == << <<"m", "i", "n">>, <<"m", "a", "x">>, <<"a", "v", "e", "r", "a", "g", "e">> >>
TimeName == <<"T", "i", "m", "e">>
PatchName == <<"p", "a", "t", "c", "h">>

\* A mutant of RenameColumn: the column keeps its name.
RenameColumnKeep(field, col) == col

\* data.rename: a column whose name starts with min, max or average is called
\* '<field> <col>'.
RenameColumn(field, col) ==
    IF \E k \in 1..Len(TargetColumns) : StartsWith(col, TargetColumns[k])
    THEN field \o <<" ">> \o col
    ELSE col

\* data.loc[data['patch'] == patch][col] after reset_index: the cells of
\* column c in the rows of the patch, in file order.
RECURSIVE PatchData(_, _, _, _)
PatchData(rows, pcol, c, patch) ==
    IF rows = <<>> THEN <<>>
    ELSE (IF Head(rows)[pcol] = patch THEN <<Head(rows)[c]>> ELSE <<>>)
         \o PatchData(Tail(rows), pcol, c, patch)

\* pd.concat([new_data, patch_data], axis=1): rows are matched by position and
\* the shorter side is filled with NaN.
ConcatColumn(df, name, series) ==
    LET n == IF Len(df.rows) >= Len(series) THEN Len(df.rows) ELSE Len(series)
    IN  [columns |-> Append(df.columns, name),
         rows    |-> [i \in 1..n |->
                        (IF i <= Len(df.rows) THEN df.rows[i]
                         ELSE [c \in 1..Len(df.columns) |-> NaNCell])
                        \o <<IF i <= Len(series) THEN series[i] ELSE NaNCell>>]]

\* The loop over patches: new_data after the first k patches.
RECURSIVE NewData(_, _, _, _, _, _)
NewData(data, time, patches, pcol, c, k) ==
    IF k = 0 THEN [columns |-> <<TimeName>>, rows |-> [i \in 1..Len(time) |-> <<time[i]>>]]
    ELSE ConcatColumn(NewData(data, time, patches, pcol, c, k - 1),
                      patches[k].str \o <<" ">> \o data.columns[c],
                      PatchData(data.rows, pcol, c, patches[k]))

\* read_dat(filepath, semilogy, append_units): the figures it saves, and
\* whether it raised.  Without a 'Time' column data['Time'] is a KeyError;
\* without rows new_data stays a Series, which plot_data cannot index.
ReadDat(filepath, lines, semilogy, append_units, is_steady) ==
    LET labels == ReadLabels(lines)
        read   == ReadCsvNames(lines, labels.labels)
    IN  IF labels.raised THEN [raised |-> TRUE, plots |-> <<>>]
        ELSE IF ~HasColumn(read.columns, PatchName)
        THEN [raised |-> FALSE,
              plots  |-> <<PlotData(read, filepath, semilogy, append_units, <<>>,
                                    is_steady)>>]
        ELSE IF ~HasColumn(read.columns, TimeName) THEN [raised |-> TRUE, plots |-> <<>>]
        ELSE LET patches == DropDuplicates(Column(read, PatchName))
                 time    == DropDuplicates(Column(read, TimeName))
                 field   == PathStem(filepath)
                 pcol    == ColumnOf(read.columns, PatchName)
                 data    == [columns |-> [c \in 1..Len(read.columns) |->
                                            RenameColumn(field, read.columns[c])],
                             rows    |-> read.rows]
                 cols    == SelectSeq([c \in 1..Len(data.columns) |-> c],
                                      LAMBDA c : data.columns[c] \notin {TimeName, PatchName})
             IN  IF patches = <<>> /\ cols # <<>> THEN [raised |-> TRUE, plots |-> <<>>]
                 ELSE [raised |-> FALSE,
                       plots  |-> [j \in 1..Len(cols) |->
                                     PlotData(NewData(data, time, patches, pcol, cols[j],
                                                      Len(patches)),
                                              filepath, semilogy, append_units,
                                              data.columns[cols[j]], is_steady)]]

\* ------------------------------------------------------------------
\* vtk2image
\* ------------------------------------------------------------------

\* MAGNITUDE_EXT, COLORMAPS and DEFAULT_COLORMAP of the package.
MAGNITUDE_EXT == <<"_", "m", "a", "g">>
COLORMAPS == (<<"p">> :> "coolwarm")
DEFAULT_COLORMAP == "jet"

\* An array of a mesh, as the data set holds it under a name: its shape, the
\* field of the file it was read from, and the component of that field it
\* holds (0 is the whole field).
Array(name, shape) == [name |-> name, shape |-> shape, src |-> name, comp |-> 0]

\* name in data.keys()
HasArray(data, name) == \E i \in 1..Len(data) : data[i].name = name

\* data[name]
GetArray(data, name) == data[CHOOSE i \in 1..Len(data) : data[i].name = name]

\* data.pop(name): the array leaves the data set.
PopArray(data, name) == SelectSeq(data, LAMBDA a : a.name # name)

\* data[name] = array: an array of that name is replaced where it stands, a
\* new name is added after the others.
SetArray(data, name, array) ==
    IF HasArray(data, name)
    THEN [i \in 1..Len(data) |->
            IF data[i].name = name THEN [array EXCEPT !.name = name] ELSE data[i]]
    ELSE Append(data, [array EXCEPT !.name = name])

\* len(array)
ArrayLen(array) == array.shape[1]

\* array.shape[-1] == 3
IsThreeWide(array) == array.shape[Len(array.shape)] = 3

\* array[:, index] raises IndexError on an array of one dimension.
CanSlice(array) == Len(array.shape) >= 2

\* array[:, index]
SliceArray(array, index) ==
    [array EXCEPT !.shape = <<array.shape[1]>>, !.comp = index]

\* COLORMAPS[array_name], DEFAULT_COLORMAP on KeyError.
ArrayCmap(array_name) ==
    IF array_name \in DOMAIN COLORMAPS THEN COLORMAPS[array_name] ELSE DEFAULT_COLORMAP

\* The loop over COMPONENTS_EXT for a 3D array: the first k components are in
\* data and colormaps.
RECURSIVE SplitComponents(_, _, _, _, _)
SplitComponents(st, array_name, array, units, k) ==
    IF k = 0 THEN st
    ELSE LET Add(prev, new_name) ==
                 [prev EXCEPT
                    !.data = SetArray(prev.data, new_name, SliceArray(array, k)),
                    !.colormaps = (new_name :> ArrayCmap(array_name)) @@ prev.colormaps]
         IN  Add(SplitComponents(st, array_name, array, units, k - 1),
                 array_name \o COMPONENTS_EXT[k] \o units)

\* data[new_name] = data.pop(array_name); colormaps[new_name] = array_cmap
RenameArray(st, array_name, new_name) ==
    [st EXCEPT
       !.data = SetArray(PopArray(st.data, array_name), new_name,
                         GetArray(st.data, array_name)),
       !.colormaps = (new_name :> ArrayCmap(array_name)) @@ st.colormaps]

\* One turn of the loop over array_names.
PrepareArray(st, array_name) ==
    LET Turn(array, units) ==
            IF ArrayLen(array) = 0
            THEN [st EXCEPT !.data = PopArray(st.data, array_name)]
            ELSE IF ~IsThreeWide(array)
            THEN RenameArray(st, array_name, array_name \o units)
            ELSE IF ~CanSlice(array) THEN [st EXCEPT !.raised = TRUE]
            ELSE RenameArray(SplitComponents(st, array_name, array, units,
                                             Len(COMPONENTS_EXT)),
                             array_name, array_name \o MAGNITUDE_EXT \o units)
    IN  IF st.raised THEN st
        ELSE Turn(GetArray(st.data, array_name), GetUnits(array_name))

\* The loop over array_names, a copy of the keys taken before the loop.
RECURSIVE PrepareArrays(_, _, _)
PrepareArrays(st, array_names, k) ==
    IF k = 0 THEN st
    ELSE PrepareArray(PrepareArrays(st, array_names, k - 1), array_names[k])

\* re.sub(r'\[.*?\]', '', s): every '[' with a ']' after it in its line is
\* removed with what lies between them.
RECURSIVE ReSubBrackets(_)
ReSubBrackets(s) ==
    LET Cut(i, rest, j) ==
            IF i = 0 THEN s
            ELSE IF j = 0 \/ \E n \in 1..j : rest[n] = "\n"
            THEN SubSeq(s, 1, i) \o ReSubBrackets(rest)
            ELSE SubSeq(s, 1, i - 1) \o ReSubBrackets(SubSeq(rest, j + 1, Len(rest)))
        From(i) == Cut(i, SubSeq(s, i + 1, Len(s)),
                       FirstIndexOf(SubSeq(s, i + 1, Len(s)), {"]"}))
    IN  From(FirstIndexOf(s, {"["}))

\* re.sub(r'\s+', '', s)
ReSubSpaces(s) == SelectSeq(s, LAMBDA c : c \notin WhiteSpace)

\* The image of one array: what add_mesh was given and where screenshot or
\* save_graphic wrote.
Image(filepath, array, colormaps) ==
    [scalars     |-> array.name,
     src         |-> array.src,
     comp        |-> array.comp,
     cmap        |-> colormaps[array.name],
     outfilepath |-> GetOutputFilepath(filepath,
                        ReSubSpaces(ReSubBrackets(array.name))).outfilepath]

\* vtk2image(filepath) on a mesh: the arrays left in data, the images written
\* in order, and whether it raised.
Vtk2Image(filepath, mesh) ==
    LET Render(st) ==
            IF st.raised THEN [raised |-> TRUE, data |-> st.data, images |-> <<>>]
            ELSE IF \E i \in 1..Len(st.data) : st.data[i].name \notin DOMAIN st.colormaps
            THEN [raised |-> TRUE, data |-> st.data, images |-> <<>>]
            ELSE [raised |-> FALSE, data |-> st.data,
                  images |-> [i \in 1..Len(st.data) |->
                                Image(filepath, st.data[i], st.colormaps)]]
        Load(data) ==
            IF data = <<>> THEN [raised |-> TRUE, data |-> <<>>, images |-> <<>>]
            ELSE Render(PrepareArrays([data |-> data, colormaps |-> <<>>, raised |-> FALSE],
                                      [i \in 1..Len(data) |-> data[i].name], Len(data)))
    IN  Load(IF Len(mesh.cell_data) > 0 THEN mesh.cell_data ELSE mesh.point_data)

\* ------------------------------------------------------------------
\* State
\* ------------------------------------------------------------------

VARIABLES
    u_name,     \* get_units: the argument
    u_pc,       \* get_units: "call" before the call, "done" after it
    u_res,      \* get_units: what GetUnitsTrace returned
    o_filepath, \* get_output_filepath: the filepath argument
    o_suffix,   \* get_output_filepath: the filesuffix argument
    o_pc,       \* get_output_filepath: "call" or "done"
    o_res,      \* get_output_filepath: the returned tuple
    l_lines,    \* read_labels: the lines of the file
    l_pc,       \* read_labels: "call" or "done"
    l_res,      \* read_labels: the returned list, or the exception raised
    walks,      \* the file system: what path.walk() gives for each target path
    g_path,     \* find_files: the index of the path walked
    g_pattern,  \* find_files: pattern
    g_exceptions, \* find_files: exceptions
    g_dir,      \* find_files: the position of the outer loop in the walk
    g_file,     \* find_files: the position of the inner loop in files
    g_found,    \* find_files: is_found
    g_state,    \* find_files: "running", "yielded" (suspended at yield) or "done"
    g_out,      \* find_files: the filepaths yielded so far
    d_paths,    \* driver: opt.paths
    d_path,     \* driver: the index of the path of the outer loop
    d_phase,    \* driver: which of the five find_files loops is running
    d_calls,    \* driver: the reader calls made, in order
    d_exit,     \* driver: "running", or the exit code of the process ("0", "1")
    m_file,     \* monitor: the lines of residuals.dat, which the solver extends
    m_pc,       \* monitor: "start", "read", "pause", "check" or "exited"
    m_seen,     \* monitor: the lines the last call of read_data read
    m_names,    \* monitor: field_names[1:], one plotted line each
    m_series,   \* monitor: the data of each plotted line (set_data)
    m_window,   \* monitor: whether the figure window is "open" or "closed"
    m_started,  \* monitor: the poll loop has been entered
    m_saved,    \* monitor: fig.savefig(output_plot_file) was called
    m_exit,     \* monitor: "running", or how the process ended
    r_filepath, \* reader: the path of the file read_dat or read_forces is given
    r_lines,    \* reader: the lines of that file
    r_args,     \* reader: IS_STEADY, semilogy and append_units of the call
    r_pc,       \* reader: "call" before the call, "done" after it
    r_plots,    \* reader: the figures plot_data saved, in order
    r_raised,   \* reader: an exception reached the wrapper
    v_filepath, \* vtk2image: the path of the mesh file
    v_mesh,     \* vtk2image: the cell and point field sets pv.read gives
    v_pc,       \* vtk2image: "call" before the call, "done" after it
    v_data,     \* vtk2image: the arrays of data when it ended
    v_images,   \* vtk2image: the images written, in order
    v_raised    \* vtk2image: an exception reached the wrapper

unitsVars == <<u_name, u_pc, u_res>>
outputVars == <<o_filepath, o_suffix, o_pc, o_res>>
labelsVars == <<l_lines, l_pc, l_res>>
scanVars == <<walks, g_path, g_pattern, g_exceptions, g_dir, g_file, g_found,
              g_state, g_out>>
driverVars == <<d_paths, d_path, d_phase, d_calls, d_exit>>
monitorVars == <<m_file, m_pc, m_seen, m_names, m_series, m_window, m_started,
                 m_saved, m_exit>>
readerVars == <<r_filepath, r_lines, r_args, r_pc, r_plots, r_raised>>
meshVars == <<v_filepath, v_mesh, v_pc, v_data, v_images, v_raised>>
vars == <<unitsVars, outputVars, labelsVars, scanVars, driverVars, monitorVars,
          readerVars, meshVars>>

NoUnits == [units |-> <<>>, keys |-> <<>>]
UnitsIdle == u_name = <<>> /\ u_pc = "off" /\ u_res = NoUnits

NoOutput == [outfilepath |-> <<>>, filename |-> <<>>, timestep |-> <<>>,
             outdirname |-> <<>>]
OutputIdle == o_filepath = <<>> /\ o_suffix = <<>> /\ o_pc = "off" /\ o_res = NoOutput

NoLabels == [raised |-> FALSE, labels |-> <<>>]
LabelsIdle == l_lines = <<>> /\ l_pc = "off" /\ l_res = NoLabels

ScanIdle ==
    /\ walks = <<>> /\ g_path = 0 /\ g_pattern = <<>> /\ g_exceptions = <<>>
    /\ g_dir = 0 /\ g_file = 0 /\ g_found = FALSE /\ g_state = "off" /\ g_out = <<>>
DriverIdle ==
    d_paths = <<>> /\ d_path = 0 /\ d_phase = 0 /\ d_calls = <<>> /\ d_exit = "off"

MonitorIdle ==
    /\ m_file = <<>> /\ m_pc = "off" /\ m_seen = <<>> /\ m_names = <<>>
    /\ m_series = <<>> /\ m_window = "none" /\ m_started = FALSE /\ m_saved = FALSE
    /\ m_exit = "off"

ReaderIdle ==
    /\ r_filepath = <<>> /\ r_lines = <<>> /\ r_args = <<>> /\ r_pc = "off"
    /\ r_plots = <<>> /\ r_raised = FALSE

MeshIdle ==
    /\ v_filepath = <<>> /\ v_mesh = <<>> /\ v_pc = "off" /\ v_data = <<>>
    /\ v_images = <<>> /\ v_raised = FALSE

\* What each component leaves alone, and the rest of the state at its start.
notUnits == <<outputVars, labelsVars, scanVars, driverVars, monitorVars, readerVars,
    meshVars>>
notOutput == <<unitsVars, labelsVars, scanVars, driverVars, monitorVars, readerVars,
    meshVars>>
notLabels == <<unitsVars, outputVars, scanVars, driverVars, monitorVars, readerVars,
    meshVars>>
notDriver == <<unitsVars, outputVars, labelsVars, monitorVars, readerVars,
    meshVars>>
notMonitor == <<unitsVars, outputVars, labelsVars, scanVars, driverVars, readerVars,
    meshVars>>
notReader == <<unitsVars, outputVars, labelsVars, scanVars, driverVars, monitorVars,
    meshVars>>
IdleNotUnits ==
    OutputIdle /\ LabelsIdle /\ ScanIdle /\ DriverIdle /\ MonitorIdle /\ ReaderIdle /\ MeshIdle
IdleNotOutput ==
    UnitsIdle /\ LabelsIdle /\ ScanIdle /\ DriverIdle /\ MonitorIdle /\ ReaderIdle /\ MeshIdle
IdleNotLabels ==
    UnitsIdle /\ OutputIdle /\ ScanIdle /\ DriverIdle /\ MonitorIdle /\ ReaderIdle /\ MeshIdle
IdleNotDriver == UnitsIdle /\ OutputIdle /\ LabelsIdle /\ MonitorIdle /\ ReaderIdle /\ MeshIdle
IdleNotMonitor ==
    UnitsIdle /\ OutputIdle /\ LabelsIdle /\ ScanIdle /\ DriverIdle /\ ReaderIdle /\ MeshIdle
IdleNotReader ==
    UnitsIdle /\ OutputIdle /\ LabelsIdle /\ ScanIdle /\ DriverIdle /\ MonitorIdle /\ MeshIdle
notMesh == <<unitsVars, outputVars, labelsVars, scanVars, driverVars, monitorVars,
             readerVars>>
IdleNotMesh ==
    /\ UnitsIdle /\ OutputIdle /\ LabelsIdle /\ ScanIdle /\ DriverIdle /\ MonitorIdle
    /\ ReaderIdle

\* ------------------------------------------------------------------
\* Unit Resolver: get_units applied to every name within the bounds
\* ------------------------------------------------------------------

MaxNameLen == 5
NameChars == {"U", "p", "(", ")", "_", "x"}

InitUnits ==
    /\ u_name \in Strings(NameChars, MaxNameLen)
    /\ u_pc = "call"
    /\ u_res = NoUnits
    /\ IdleNotUnits

CallGetUnits ==
    /\ u_pc = "call"
    /\ u_res' = GetUnitsTrace(u_name)
    /\ u_pc' = "done"
    /\ UNCHANGED <<u_name, notUnits>>

NextUnits == CallGetUnits
SpecUnits == InitUnits /\ [][NextUnits]_vars

\* ------------------------------------------------------------------
\* Output Path Resolver: get_output_filepath applied to paths of the
\* layout .../<kind>/<timestep>/<file> and to shorter ones ("." and ".." are
\* not names of directories)
\* ------------------------------------------------------------------

MaxDirLen == 3
DirChars == {"0", "3", ".", "e", "x"}
SuffixChars == {"a", "/", "\\", " "}
PathPrefixes == {<<>>, << <<"c">>, <<"k">> >>}
FileNames == {<<"f", ".", "v">>, <<"f">>}

InitOutput ==
    /\ \E pre \in PathPrefixes, file \in FileNames,
          dir \in Strings(DirChars, MaxDirLen) \ {<<".">>, <<".", ".">>} :
          o_filepath = pre \o (IF dir = <<>> THEN <<>> ELSE <<dir>>) \o <<file>>
    /\ o_suffix \in Strings(SuffixChars, MaxDirLen - 1)
    /\ o_pc = "call"
    /\ o_res = NoOutput
    /\ IdleNotOutput

CallGetOutputFilepath ==
    /\ o_pc = "call"
    /\ o_res' = GetOutputFilepath(o_filepath, o_suffix)
    /\ o_pc' = "done"
    /\ UNCHANGED <<o_filepath, o_suffix, notOutput>>

NextOutput == CallGetOutputFilepath
SpecOutput == InitOutput /\ [][NextOutput]_vars

\* ------------------------------------------------------------------
\* Label parsing: read_labels applied to files of at most two lines
\* ------------------------------------------------------------------

MaxTokens == 3
LabelTokens == {<<"a">>, <<"T">>, <<"[", "m", "]">>, <<"[", "m">>}

\* The tokens of a line, one space between two of them.
RECURSIVE JoinTokens(_)
JoinTokens(tokens) ==
    IF tokens = <<>> THEN <<>>
    ELSE IF Len(tokens) = 1 THEN tokens[1]
    ELSE tokens[1] \o <<" ">> \o JoinTokens(Tail(tokens))

TokenRows == UNION {[1..k -> LabelTokens] : k \in 0..MaxTokens}
CommentLines ==
    {<<"#">> \o sep \o JoinTokens(t) \o <<"\n">> : sep \in {<<>>, <<" ">>}, t \in TokenRows}
FileLines == CommentLines \cup {<<"1", " ", "2", "\n">>, <<"\n">>}

InitLabels ==
    /\ l_lines \in UNION {[1..k -> FileLines] : k \in 0..2}
    /\ l_pc = "call"
    /\ l_res = NoLabels
    /\ IdleNotLabels

CallReadLabels ==
    /\ l_pc = "call"
    /\ l_res' = ReadLabels(l_lines)
    /\ l_pc' = "done"
    /\ UNCHANGED <<l_lines, notLabels>>

NextLabels == CallReadLabels
SpecLabels == InitLabels /\ [][NextLabels]_vars

\* ------------------------------------------------------------------
\* Path Scanner: the find_files generator, one step of its loops at a time
\* ------------------------------------------------------------------

\* The directory the outer loop is in, and the file the inner loop is at.
CurDir == walks[g_path][g_dir]
CurFile == CurDir.files[g_file]

\* The inner loop skips a file that does not match pattern.
FindFilesSkipOther ==
    /\ g_state = "running"
    /\ g_dir <= Len(walks[g_path]) /\ g_file <= Len(CurDir.files)
    /\ ~FileMatch(CurFile, g_pattern)
    /\ g_file' = g_file + 1
    /\ UNCHANGED <<walks, g_path, g_pattern, g_exceptions, g_dir, g_found, g_state,
                   g_out, driverVars, notDriver>>

\* The inner loop skips a file that matches one of exceptions.
FindFilesSkipException ==
    /\ g_state = "running"
    /\ g_dir <= Len(walks[g_path]) /\ g_file <= Len(CurDir.files)
    /\ FileMatch(CurFile, g_pattern)
    /\ IsException(CurFile, g_exceptions)
    /\ g_file' = g_file + 1
    /\ UNCHANGED <<walks, g_path, g_pattern, g_exceptions, g_dir, g_found, g_state,
                   g_out, driverVars, notDriver>>

\* The inner loop yields root / file and is suspended.
FindFilesYield ==
    /\ g_state = "running"
    /\ g_dir <= Len(walks[g_path]) /\ g_file <= Len(CurDir.files)
    /\ FileMatch(CurFile, g_pattern)
    /\ ~IsException(CurFile, g_exceptions)
    /\ g_out' = Append(g_out, Append(CurDir.root, CurFile))
    /\ g_found' = TRUE
    /\ g_state' = "yielded"
    /\ g_file' = g_file + 1
    /\ UNCHANGED <<walks, g_path, g_pattern, g_exceptions, g_dir, driverVars, notDriver>>

\* The inner loop is over: the outer loop takes the next directory of the walk.
FindFilesNextDir ==
    /\ g_state = "running"
    /\ g_dir <= Len(walks[g_path]) /\ g_file > Len(CurDir.files)
    /\ g_dir' = g_dir + 1
    /\ g_file' = 1
    /\ UNCHANGED <<walks, g_path, g_pattern, g_exceptions, g_found, g_state, g_out,
                   driverVars, notDriver>>

\* The walk is over: the generator ends (after its message when nothing was
\* found).
FindFilesEnd ==
    /\ g_state = "running"
    /\ g_dir > Len(walks[g_path])
    /\ g_state' = "done"
    /\ UNCHANGED <<walks, g_path, g_pattern, g_exceptions, g_dir, g_file, g_found,
                   g_out, driverVars, notDriver>>

FindFilesStep ==
    \/ FindFilesSkipOther
    \/ FindFilesSkipException
    \/ FindFilesYield
    \/ FindFilesNextDir
    \/ FindFilesEnd

\* The caller of the generator asks for the next filepath.
Resume ==
    /\ g_state = "yielded"
    /\ d_exit = "off"
    /\ g_state' = "running"
    /\ UNCHANGED <<walks, g_path, g_pattern, g_exceptions, g_dir, g_file, g_found,
                   g_out, driverVars, notDriver>>

\* The listings of at most n names of `names`, in any order.
Listings(names, n) ==
    {l \in UNION {[1..k -> names] : k \in 0..n} :
        \A i, j \in 1..Len(l) : i # j => l[i] # l[j]}

MaxListing == 2
ScanNames == {<<"a">>, <<"A", "b">>, <<"b">>}
ScanPatterns == {<<"*">>, <<"a", "*">>, <<"*", "B">>, <<"a">>, <<"?", "b">>}
ScanExceptions ==
    {<<>>, << <<"a", "*">>, <<"b">> >>} \cup {<<p>> : p \in ScanPatterns}

\* A root directory and one directory under it, as path.walk(top_down=True)
\* lists them.
ScanWalks ==
    {<< [root |-> << <<"r">> >>, files |-> l1],
        [root |-> << <<"r">>, <<"s">> >>, files |-> l2] >> :
        l1 \in Listings(ScanNames, MaxListing), l2 \in Listings(ScanNames, MaxListing)}

InitScan ==
    /\ walks \in {<<w>> : w \in ScanWalks}
    /\ g_path = 1
    /\ g_pattern \in ScanPatterns
    /\ g_exceptions \in ScanExceptions
    /\ g_dir = 1 /\ g_file = 1
    /\ g_found = FALSE
    /\ g_state = "running"
    /\ g_out = <<>>
    /\ DriverIdle
    /\ IdleNotDriver

NextScan == FindFilesStep \/ Resume
SpecScan == InitScan /\ [][NextScan]_vars

\* ------------------------------------------------------------------
\* Driver: the main program, over the find_files generator
\* ------------------------------------------------------------------

\* The five loops of the body of `for path in opt.paths`, in order.
Phases == <<
    [pattern |-> VTK_FILE, exceptions |-> <<CLOUD_FILE>>, reader |-> "vtk2image"],
    [pattern |-> RES_FILE, exceptions |-> <<>>, reader |-> "read_dat"],
    [pattern |-> DAT_FILE, exceptions |-> <<RES_FILE, FORCE_FILE>>, reader |-> "read_dat"],
    [pattern |-> XY_FILE, exceptions |-> <<>>, reader |-> "read_dat"],
    [pattern |-> FORCE_FILE, exceptions |-> <<>>, reader |-> "read_forces"] >>

\* The loop body: the decorated reader is called on the yielded filepath.  The
\* reader returns or raises an Exception; what the wrapper does with it decides
\* whether the loop goes on or the process dies with a traceback (exit code 1).
CallReader ==
    /\ g_state = "yielded"
    /\ d_exit = "running"
    /\ \E raised \in BOOLEAN :
          /\ d_calls' = Append(d_calls, [reader |-> Phases[d_phase].reader,
                                         file |-> g_out[Len(g_out)],
                                         raised |-> raised])
          /\ IF Wrapper(raised) = "returned"
             THEN g_state' = "running" /\ d_exit' = d_exit
             ELSE g_state' = "closed" /\ d_exit' = "1"
    /\ UNCHANGED <<walks, g_path, g_pattern, g_exceptions, g_dir, g_file, g_found,
                   g_out, d_paths, d_path, d_phase, notDriver>>

\* A loop is over and the next one calls find_files: the next pattern on the
\* same path, or the first pattern on the next path.
NextLoop ==
    /\ g_state = "done"
    /\ d_exit = "running"
    /\ d_phase < Len(Phases) \/ d_path < Len(d_paths)
    /\ LET phase == IF d_phase < Len(Phases) THEN d_phase + 1 ELSE 1
           path  == IF d_phase < Len(Phases) THEN d_path ELSE d_path + 1
       IN  /\ d_phase' = phase
           /\ d_path' = path
           /\ g_path' = path
           /\ g_pattern' = Phases[phase].pattern
           /\ g_exceptions' = Phases[phase].exceptions
    /\ g_dir' = 1 /\ g_file' = 1
    /\ g_found' = FALSE
    /\ g_state' = "running"
    /\ g_out' = <<>>
    /\ UNCHANGED <<walks, d_paths, d_calls, d_exit, notDriver>>

\* The last loop on the last path is over: sys.exit(0).
Exit ==
    /\ g_state = "done"
    /\ d_exit = "running"
    /\ d_phase = Len(Phases) /\ d_path = Len(d_paths)
    /\ d_exit' = "0"
    /\ UNCHANGED <<scanVars, d_paths, d_path, d_phase, d_calls, notDriver>>

\* The files a case directory may hold, as its listing orders them.
CaseFiles == <<
    <<"U", ".", "v", "t", "k">>,
    <<"c", "l", "o", "u", "d", "_", "U", ".", "V", "T", "K">>,
    <<"r", "e", "s", "i", "d", "u", "a", "l", "s", ".", "d", "a", "t">>,
    <<"p", ".", "d", "a", "t">>,
    <<"f", "o", "r", "c", "e", "s", ".", "d", "a", "t">>,
    <<"l", ".", "x", "y">> >>

\* The listing of the files of CaseFiles picked by `keep`, in order.
RECURSIVE Pick(_, _)
Pick(files, keep) ==
    IF files = <<>> THEN <<>>
    ELSE (IF Len(CaseFiles) - Len(files) + 1 \in keep THEN <<Head(files)>> ELSE <<>>)
         \o Pick(Tail(files), keep)

\* Every target path holds one timestep directory with the files picked.
CaseWalk(path, keep) ==
    << [root |-> <<path>>, files |-> <<>>],
       [root |-> <<path, <<"k">>, <<"1">> >>, files |-> Pick(CaseFiles, keep)] >>

Init ==
    /\ d_paths \in {<< <<"A">> >>, << <<"A">>, <<"B">> >>}
    /\ \E keep \in {k \in SUBSET (1..Len(CaseFiles)) : Cardinality(k) <= MaxListing} :
          walks = [i \in 1..Len(d_paths) |-> CaseWalk(d_paths[i], keep)]
    /\ d_path = 1 /\ d_phase = 1
    /\ d_calls = <<>>
    /\ d_exit = "running"
    /\ g_path = 1
    /\ g_pattern = Phases[1].pattern
    /\ g_exceptions = Phases[1].exceptions
    /\ g_dir = 1 /\ g_file = 1
    /\ g_found = FALSE
    /\ g_state = "running"
    /\ g_out = <<>>
    /\ IdleNotDriver

Next == FindFilesStep \/ CallReader \/ NextLoop \/ Exit
Spec == Init /\ [][Next]_vars

\* ------------------------------------------------------------------
\* Live Residual Monitor: live_residuals.py from its first read_data on,
\* beside a solver that appends rows to the file and a user who may close the
\* window or interrupt the process
\* ------------------------------------------------------------------

MaxRows == 2
TitleLine == <<"#", " ", "R", "e", "s", "\n">>
NamesLine == <<"#", " ", "T", "i", "m", "e", " ", "U", "x", " ", "p", "\n">>
MonitorHeaders == {<<NamesLine>>, <<TitleLine, NamesLine>>}
TimeTokens == {<<"1">>}
\* A number, n/a in two letter cases, and a number cut short ("2e" of 2e-05).
FieldTokens == {<<"2">>, <<"n", "/", "a">>, <<"N", "/", "A">>, <<"2", "e">>}
DataRows ==
    {JoinTokens(<<t, a, b>>) \o <<"\n">> :
        t \in TimeTokens, a \in FieldTokens, b \in FieldTokens}

\* The number of data rows of the file.
RowCount(lines) == Len(SelectSeq(lines, IsDataLine))

InitMonitor ==
    /\ \E h \in MonitorHeaders, rows \in UNION {[1..k -> DataRows] : k \in 0..MaxRows} :
          m_file = h \o rows
    /\ m_pc = "start"
    /\ m_seen = <<>>
    /\ m_names = <<>>
    /\ m_series = <<>>
    /\ m_window = "none"
    /\ m_started = FALSE
    /\ m_saved = FALSE
    /\ m_exit = "running"
    /\ IdleNotMonitor

\* Lines 63-82: the first read_data, numeric_data[0] (an IndexError without
\* columns), one empty plotted line per field name, the figure window.  An
\* exception here ends the process before the loop.
FirstRead ==
    /\ m_pc = "start"
    /\ m_seen' = m_file
    /\ LET r == ReadData(m_file)
       IN  IF r.raised \/ r.numeric_data = <<>>
           THEN /\ m_pc' = "exited" /\ m_exit' = "error"
                /\ UNCHANGED <<m_names, m_series, m_window, m_started>>
           ELSE /\ m_names' = Tail(r.field_names)
                /\ m_series' = [k \in 1..Len(m_names') |-> [x |-> <<>>, y |-> <<>>]]
                /\ m_window' = "open"
                /\ m_started' = TRUE
                /\ m_pc' = "read"
                /\ UNCHANGED m_exit
    /\ UNCHANGED <<m_file, m_saved, notMonitor>>

\* Lines 88-98: read_data in the loop and set_data on the lines zipped with the
\* columns.  An exception of read_data (or the IndexError of numeric_data[0])
\* is not a KeyboardInterrupt: it leaves the try statement and ends the process
\* with a traceback.
LoopRead ==
    /\ m_pc = "read"
    /\ m_seen' = m_file
    /\ LET r == ReadData(m_file)
       IN  IF r.raised \/ r.numeric_data = <<>>
           THEN /\ m_pc' = "exited" /\ m_exit' = "error"
                /\ UNCHANGED m_series
           ELSE /\ m_series' =
                      [k \in 1..Len(m_series) |->
                          IF k <= Len(r.numeric_data) - 1
                          THEN [x |-> r.numeric_data[1], y |-> r.numeric_data[k + 1]]
                          ELSE m_series[k]]
                /\ m_pc' = "pause"
                /\ UNCHANGED m_exit
    /\ UNCHANGED <<m_file, m_names, m_window, m_started, m_saved, notMonitor>>

\* Line 101: plt.pause(1).
Pause ==
    /\ m_pc = "pause"
    /\ m_pc' = "check"
    /\ UNCHANGED <<m_file, m_seen, m_names, m_series, m_window, m_started, m_saved,
                   m_exit, notMonitor>>

\* Lines 104-107: the window is gone, so the figure is saved and the
\* loop left; otherwise the loop goes round.
CheckWindow ==
    /\ m_pc = "check"
    /\ IF m_window = "closed"
       THEN m_saved' = TRUE /\ m_pc' = "exited" /\ m_exit' = "window"
       ELSE m_pc' = "read" /\ UNCHANGED <<m_saved, m_exit>>
    /\ UNCHANGED <<m_file, m_seen, m_names, m_series, m_window, m_started, notMonitor>>

\* Lines 108-111: a KeyboardInterrupt anywhere in the try statement.
Interrupt ==
    /\ m_pc \in {"read", "pause", "check"}
    /\ m_saved' = TRUE
    /\ m_pc' = "exited"
    /\ m_exit' = "interrupt"
    /\ UNCHANGED <<m_file, m_seen, m_names, m_series, m_window, m_started, notMonitor>>

\* The user closes the figure window.
CloseWindow ==
    /\ m_pc \in {"read", "pause", "check"}
    /\ m_window = "open"
    /\ m_window' = "closed"
    /\ UNCHANGED <<m_file, m_pc, m_seen, m_names, m_series, m_started, m_saved, m_exit,
                   notMonitor>>

\* The solver writes one more row to the file.
SolverAppend ==
    /\ m_exit = "running"
    /\ RowCount(m_file) < MaxRows
    /\ \E row \in DataRows : m_file' = Append(m_file, row)
    /\ UNCHANGED <<m_pc, m_seen, m_names, m_series, m_window, m_started, m_saved,
                   m_exit, notMonitor>>

NextMonitor ==
    \/ FirstRead
    \/ LoopRead
    \/ Pause
    \/ CheckWindow
    \/ Interrupt
    \/ CloseWindow
    \/ SolverAppend
SpecMonitor == InitMonitor /\ [][NextMonitor]_vars

\* ------------------------------------------------------------------
\* read_forces, called through the wrapper on one force file
\* ------------------------------------------------------------------

MaxForceLines == 2
ForceHeaders ==
    {<<"#", " ", "T", "i", "m", "e", "\n">>,
     <<"#", " ", "f", "o", "r", "c", "e", "s", "(", "p", ")", "\n">>,
     <<"#", " ", "f", "o", "r", "c", "e", "s", "(", "p", " ", "v", ")", "\n">>,
     <<"#", " ", "f", "o", "r", "c", "e", "s", "(", "p", " ", "v", " ", "o", ")", "\n">>}
ForceTimes == {<<"5">>}
ForcePaths ==
    {<< <<"c">>, <<"k">>, <<"3">>, <<"f", ".", "d">> >>,
     << <<"c">>, <<"k">>, <<"x">>, <<"f", ".", "d">> >>}

\* One vector of a force line: '(a b c)'.
ForceVector(cells) == <<"(">> \o JoinTokens(cells) \o <<")">>

\* One block of a force line: '((a b c) (d e f))', one vector per contribution.
ForceBlock(cells) ==
    <<"(">> \o JoinTokens([k \in 1..(Len(cells) \div 3) |->
                              ForceVector(SubSeq(cells, 3 * k - 2, 3 * k))])
    \o <<")">>

\* A line of n contributions whose only non-zero entry is entry hot.
ForceLine(t, hot, n) ==
    LET cells == [c \in 1..(6 * n) |-> IF c = hot THEN <<"1">> ELSE <<"0">>]
    IN  t \o <<" ">> \o ForceBlock(SubSeq(cells, 1, 3 * n))
          \o <<" ">> \o ForceBlock(SubSeq(cells, 3 * n + 1, 6 * n)) \o <<"\n">>

\* The lines a solver writes for n contributions.
ForceLines(n) == {ForceLine(t, hot, n) : t \in ForceTimes, hot \in 1..(6 * n)}

\* The header and the lines agree on the number of contributions, or the
\* lines hold one contribution whatever the header declares.
InitForces ==
    /\ \E h \in ForceHeaders :
          \E n \in {NContribs(<<h>>), 1} \ {0} :
             \E rows \in UNION {[1..k -> ForceLines(n)] : k \in 0..MaxForceLines} :
                r_lines = <<h>> \o rows
    /\ r_filepath \in ForcePaths
    /\ r_args \in {<<s, FALSE, TRUE>> : s \in BOOLEAN}
    /\ r_pc = "call"
    /\ r_plots = <<>>
    /\ r_raised = FALSE
    /\ IdleNotReader

\* wrapper(filepath) around read_forces.
CallReadForces ==
    /\ r_pc = "call"
    /\ LET res == ReadForces(r_filepath, r_lines, r_args[1])
       IN  r_plots' = res.plots /\ r_raised' = res.raised
    /\ r_pc' = "done"
    /\ UNCHANGED <<r_filepath, r_lines, r_args, notReader>>

NextForces == CallReadForces
SpecForces == InitForces /\ [][NextForces]_vars

\* ------------------------------------------------------------------
\* read_dat, called through the wrapper on one series file
\* ------------------------------------------------------------------

MaxDatRows == 4
DatLabelRows ==
    {<<"#", " ", "T", "i", "m", "e", " ", "p", "a", "t", "c", "h", " ",
       "m", "i", "n", " ", "m", "a", "x", "\n">>,
     <<"#", " ", "T", "i", "m", "e", " ", "p", "a", "t", "c", "h", " ",
       "x", " ", "m", "i", "n", "\n">>,
     <<"#", " ", "T", "i", "m", "e", " ", "p", "a", "t", "c", "h", " ",
       "m", "i", "n", " ", "[", "a", "]", " ", "m", "i", "n", "[", "a", "]", "\n">>,
     <<"#", " ", "T", "i", "m", "e", " ", "s", " ", "p", " ", "k", "\n">>}
DatTimes == <<"1", "2">>
DatPatches == <<"A", "B">>
DatPaths ==
    {<< <<"c">>, <<"k">>, <<"3">>, <<"f", ".", "d">> >>,
     << <<"c">>, <<"k">>, <<"x">>, <<"f", ".", "d">> >>}

\* The two values patch p reports at time t: each pair has values of its own.
DatValues == << <<"3", "4">>, <<"5", "6">> >>

\* A row: the time, the patch, and the two values of the pair.
DatLine(t, p) ==
    <<DatTimes[t], " ", DatPatches[p], " ", DatValues[p][t], " ", "1", DatValues[p][t], "\n">>

DatLines == {DatLine(t, p) : t \in 1..Len(DatTimes), p \in 1..Len(DatPatches)}

InitDat ==
    /\ \E h \in DatLabelRows :
          \E rows \in UNION {[1..k -> DatLines] : k \in 0..MaxDatRows} :
             r_lines = <<h>> \o rows
    /\ r_filepath \in DatPaths
    /\ r_args \in {<<FALSE, FALSE, TRUE>>, <<TRUE, TRUE, FALSE>>}
    /\ r_pc = "call"
    /\ r_plots = <<>>
    /\ r_raised = FALSE
    /\ IdleNotReader

\* wrapper(filepath, semilogy=..., append_units=...) around read_dat.
CallReadDat ==
    /\ r_pc = "call"
    /\ LET res == ReadDat(r_filepath, r_lines, r_args[2], r_args[3], r_args[1])
       IN  r_plots' = res.plots /\ r_raised' = res.raised
    /\ r_pc' = "done"
    /\ UNCHANGED <<r_filepath, r_lines, r_args, notReader>>

NextDat == CallReadDat
SpecDat == InitDat /\ [][NextDat]_vars

\* ------------------------------------------------------------------
\* vtk2image on one mesh file
\* ------------------------------------------------------------------

MaxFields == 2

\* The names of the fields of a file: a vector with units, two scalars, and a
\* field named like a component.
FieldNames == {<<"U">>, <<"p">>, <<"k">>, <<"U", "_", "x">>}

\* The numbers of elements of a field: the cells or points of the mesh.
MeshSizes == {0, 1, 3}

\* The shapes of the arrays of n elements: a scalar, a vector and a symmetric
\* tensor.
Shapes(n) == {<<n>>, <<n, 3>>, <<n, 6>>}

VtkPaths ==
    {<< <<"c">>, <<"k">>, <<"3">>, <<"f", ".", "v", "t", "k">> >>,
     << <<"c">>, <<"k">>, <<"x">>, <<"f", ".", "v", "t", "k">> >>}

\* The field sets of at most k arrays of n elements, under distinct names.
FieldSets(n, k) ==
    {data \in UNION {[1..m -> {Array(name, shape) : name \in FieldNames,
                                                    shape \in Shapes(n)}] : m \in 0..k} :
        \A i, j \in 1..Len(data) : data[i].name = data[j].name => i = j}

InitVtk ==
    /\ \E n \in MeshSizes : \E cells \in FieldSets(n, MaxFields) :
          \E points \in FieldSets(3, 1) :
             v_mesh = [cell_data |-> cells, point_data |-> points]
    /\ v_filepath \in VtkPaths
    /\ v_pc = "call"
    /\ v_data = <<>>
    /\ v_images = <<>>
    /\ v_raised = FALSE
    /\ IdleNotMesh

\* wrapper(filepath) around vtk2image.
CallVtk2Image ==
    /\ v_pc = "call"
    /\ LET res == Vtk2Image(v_filepath, v_mesh)
       IN  v_data' = res.data /\ v_images' = res.images /\ v_raised' = res.raised
    /\ v_pc' = "done"
    /\ UNCHANGED <<v_filepath, v_mesh, notMesh>>

NextVtk == CallVtk2Image
SpecVtk == InitVtk /\ [][NextVtk]_vars

\* ==================================================================
\* Properties
\* ==================================================================

\* The first key of `keys` found in UNITS_OF_MEASURE, as ' [<unit>]'; the empty
\* string when there is none.
FirstUnits(keys) ==
    LET hits == {i \in 1..Len(keys) : keys[i] \in DOMAIN UNITS_OF_MEASURE}
    IN  IF hits = {} THEN <<>>
        ELSE LET i == CHOOSE a \in hits : \A b \in hits : a <= b
             IN  <<" ", "[">> \o UNITS_OF_MEASURE[keys[i]] \o <<"]">>

\* The keys s gives by dropping a vector-component suffix it ends with.
WithoutComponent(s) ==
    {SubSeq(s, 1, Len(s) - Len(COMPONENTS_EXT[k])) :
        k \in {h \in 1..Len(COMPONENTS_EXT) : EndsWith(s, COMPONENTS_EXT[h])}}

SeqOfSet(S) == IF S = {} THEN <<>> ELSE <<CHOOSE x \in S : TRUE>>
Range(f) == {f[i] : i \in DOMAIN f}

\* The lookups C8 describes: the name, the contents of its parenthesized
\* group, the name without its component suffix.
C8_ClaimedKeys(name) ==
    <<name>>
    \o (IF ReSearchParen(name).found THEN <<ReSearchParen(name).group>> ELSE <<>>)
    \o SeqOfSet(WithoutComponent(name))

\* The lookups of the amended C8: the suffix is dropped from the contents of the
\* parenthesized group when the name has one, from the name otherwise.
C8_AmendedKeys(name) ==
    LET m == ReSearchParen(name)
        cand == IF m.found THEN m.group ELSE name
    IN  <<name>> \o (IF m.found THEN <<m.group>> ELSE <<>>)
        \o SeqOfSet(WithoutComponent(cand))

\* C8 as stated: get_units returns ' [<unit>]' for the first successful lookup
\* among the name, the contents of its parenthesized group and the name with
\* its vector-component suffix stripped, the empty string if none succeeds, and
\* looks up no other key.
C8_AsClaimed ==
    u_pc = "done" =>
        /\ u_res.units = FirstUnits(C8_ClaimedKeys(u_name))
        /\ Range(u_res.keys) \subseteq Range(C8_ClaimedKeys(u_name))

\* C8 amended: get_units returns ' [<unit>]' for the first successful lookup
\* among (1) the name, (2) the contents of its parenthesized group, (3) the
\* contents of that group (the name itself when it has no group) with a
\* vector-component suffix stripped; the empty string if none succeeds; and it
\* looks up no other key.
C8_UnitsResolution ==
    u_pc = "done" =>
        /\ u_res.units = FirstUnits(C8_AmendedKeys(u_name))
        /\ Range(u_res.keys) \subseteq Range(C8_AmendedKeys(u_name))

\* The third lookup succeeds on the contents of a parenthesized group.
C8_Witness ==
    /\ u_pc = "done"
    /\ ReSearchParen(u_name).found
    /\ u_name \notin DOMAIN UNITS_OF_MEASURE
    /\ ReSearchParen(u_name).group \notin DOMAIN UNITS_OF_MEASURE
    /\ u_res.units = <<" ", "[", "m", "/", "s", "]">>

\* The file name C4 describes for a call of get_output_filepath.
C4_ExpectedName(filepath, suffix) ==
    LET parent == PathName(PathParent(filepath))
        ts     == IF PyFloat(parent).ok THEN parent ELSE <<"0">>
    IN  PathStem(filepath)
        \o (IF suffix # <<>>
            THEN <<"_">> \o SelectSeq(suffix, LAMBDA c : c \notin {"/", "\\", " "})
            ELSE <<>>)
        \o (IF ts # <<"0">> THEN <<"_">> \o ts ELSE <<>>)
        \o EXTENSION

\* The same file under a directory named "0".
C4_UnderZero(filepath) ==
    Append(Append(PathParent(PathParent(filepath)), <<"0">>), PathName(filepath))

\* C4: timestep is the parent directory name when it parses as a float and "0"
\* otherwise; the output file name is baseName, "_" + the suffix without '/',
\* '\' and spaces when the suffix is non-empty, "_" + timestep when timestep is
\* not "0", and the extension; the output path is that name in the grandparent
\* directory, whose name is the returned label; so a file under a non-numeric
\* directory gets the output file name it gets under a directory named "0".
C4_OutputPath ==
    o_pc = "done" =>
        LET parent == PathName(PathParent(o_filepath))
            grand  == PathParent(PathParent(o_filepath))
        IN  /\ o_res.timestep = IF PyFloat(parent).ok THEN parent ELSE <<"0">>
            /\ o_res.filename = PathStem(o_filepath)
            /\ PathName(o_res.outfilepath) = C4_ExpectedName(o_filepath, o_suffix)
            /\ PathParent(o_res.outfilepath) = grand
            /\ o_res.outdirname = PathName(grand)
            /\ ~PyFloat(parent).ok =>
                  PathName(o_res.outfilepath) =
                  PathName(GetOutputFilepath(C4_UnderZero(o_filepath), o_suffix).outfilepath)

\* A numeric timestep other than "0" and a suffix that loses a character.
C4_Witness ==
    /\ o_pc = "done"
    /\ o_res.timestep = <<"3", ".", "0">>
    /\ o_suffix = <<"a", "\\">>
    /\ PathName(o_res.outfilepath) =
          <<"f", "_", "a", "_", "3", ".", "0", ".", "p", "n", "g">>

\* The tokens of the label row: the last line of the leading block of comment
\* lines, without its '#', split on whitespace.
C5_LabelTokens(lines) ==
    LET comments == LeadingComments(lines)
    IN  IF comments = <<>> THEN <<>>
        ELSE Split(RemovePrefix(Strip(comments[Len(comments)]), <<"#">>))

\* A token of the bracketed-unit form "[...]".
C5_IsBracketed(token) ==
    Len(token) >= 2 /\ token[1] = "[" /\ token[Len(token)] = "]"

\* labels is tokens with every bracketed token appended, after one space, to
\* the label before it: each label is one plain token followed by the
\* bracketed tokens that come next, and the labels together are the tokens.
C5_IsMerge(tokens, labels) ==
    /\ Concat([i \in 1..Len(labels) |-> Split(labels[i])]) = tokens
    /\ \A i \in 1..Len(labels) :
          LET parts == Split(labels[i])
          IN  /\ parts # <<>>
              /\ labels[i] = JoinTokens(parts)
              /\ ~C5_IsBracketed(parts[1])
              /\ \A j \in 2..Len(parts) : C5_IsBracketed(parts[j])

\* C5 as stated: read_labels returns the tokens of the label row with every
\* bracketed-unit token appended to the label before it, whatever the position
\* of the unit token in the line, and the empty list for a file with no leading
\* comment line.
C5_AsClaimed ==
    l_pc = "done" =>
        /\ ~l_res.raised
        /\ C5_IsMerge(C5_LabelTokens(l_lines), l_res.labels)

\* The files of the walk, each as (directory index, file index).
C3_Files ==
    UNION {{<<i, j>> : j \in 1..Len(walks[1][i].files)} : i \in 1..Len(walks[1])}

\* The path of a file of the walk.
C3_Path(f) == Append(walks[1][f[1]].root, walks[1][f[1]].files[f[2]])

\* The file matches the target pattern, case-insensitively, and no exclusion.
C3_Wanted(f) ==
    LET name == Lower(walks[1][f[1]].files[f[2]])
    IN  /\ GlobMatch(Lower(g_pattern), name)
        /\ \A k \in 1..Len(g_exceptions) : ~GlobMatch(Lower(g_exceptions[k]), name)

\* C3: when find_files is exhausted, the path of every file under the root was
\* yielded exactly once if the file matches the pattern case-insensitively and
\* none of the exclusion patterns, and never otherwise; before that, only such
\* paths were yielded, none twice.
C3_YieldedIffWanted ==
    /\ g_state \in {"running", "yielded", "done"} =>
          /\ \A k \in 1..Len(g_out) : \E f \in C3_Files : C3_Wanted(f) /\ C3_Path(f) = g_out[k]
          /\ \A k, h \in 1..Len(g_out) : k # h => g_out[k] # g_out[h]
    /\ g_state = "done" =>
          /\ \A f \in C3_Files : C3_Wanted(f) => \E k \in 1..Len(g_out) : g_out[k] = C3_Path(f)
          /\ g_found = (g_out # <<>>)

\* The generator is exhausted, it yielded a file, and it passed over a file
\* that matches both the pattern and an exclusion.
C3_Witness ==
    /\ g_state = "done"
    /\ g_out # <<>>
    /\ \E f \in C3_Files :
          /\ GlobMatch(Lower(g_pattern), Lower(walks[1][f[1]].files[f[2]]))
          /\ ~C3_Wanted(f)

\* The files find_files discovers on path i for the loop `phase`, in walk order.
RECURSIVE C1_Matching(_, _, _)
C1_Matching(root, files, phase) ==
    IF files = <<>> THEN <<>>
    ELSE (IF /\ GlobMatch(Lower(Phases[phase].pattern), Lower(Head(files)))
             /\ \A k \in 1..Len(Phases[phase].exceptions) :
                   ~GlobMatch(Lower(Phases[phase].exceptions[k]), Lower(Head(files)))
          THEN << [reader |-> Phases[phase].reader, file |-> Append(root, Head(files))] >>
          ELSE <<>>)
         \o C1_Matching(root, Tail(files), phase)

\* Every (reader, file) pair the run has to call, in order.
C1_Expected ==
    Concat([i \in 1..Len(d_paths) |->
        Concat([phase \in 1..Len(Phases) |->
            Concat([d \in 1..Len(walks[i]) |->
                C1_Matching(walks[i][d].root, walks[i][d].files, phase)])])])

\* C1: whatever readers raise, the run is never stuck before its end, it ends
\* with exit code 0, and by then the matching reader was called once on every
\* discovered file of every pattern and path, in discovery order.
C1_PerFileIsolation ==
    /\ d_exit \in {"off", "running", "0"}
    /\ d_exit = "running" => ENABLED Next
    /\ d_exit = "0" =>
          [k \in 1..Len(d_calls) |->
              [reader |-> d_calls[k].reader, file |-> d_calls[k].file]] = C1_Expected

\* The run is over; of three calls in a row the middle one raised.
C1_Witness ==
    /\ d_exit = "0"
    /\ \E k \in 2..(Len(d_calls) - 1) :
          ~d_calls[k-1].raised /\ d_calls[k].raised /\ ~d_calls[k+1].raised

\* C2 as stated: once the poll loop has started, the process ends only through
\* window closure or an external interrupt, and whenever it has ended the final
\* image was saved.
C2_AsClaimed ==
    (m_started /\ m_exit \notin {"off", "running"}) =>
        /\ m_exit \in {"window", "interrupt"}
        /\ m_saved

\* The rows of a file: the tokens of its lines that are not comments.
C9_Rows(lines) ==
    LET datas == SelectSeq(lines, IsDataLine)
    IN  [i \in 1..Len(datas) |-> Split(datas[i])]

\* Every token of every row is a number or n/a in some letter case, there is a
\* row, and every row has one token per name of the last comment line.
C9_GoodRows(lines) ==
    LET rows  == C9_Rows(lines)
        heads == SelectSeq(lines, IsCommentLine)
    IN  /\ rows # <<>>
        /\ heads # <<>>
        /\ \A i \in 1..Len(rows) :
              /\ Len(rows[i]) = Len(Split(RemoveChar(heads[Len(heads)], "#")))
              /\ \A c \in 1..Len(rows[i]) :
                    \/ Lower(rows[i][c]) = <<"n", "/", "a">>
                    \/ PyFloat(rows[i][c]).ok

\* The number of comment lines of the file.
C9_HeaderLines(lines) == Len(SelectSeq(lines, IsCommentLine))

\* Each plotted line holds its column: not-a-number where the token is n/a, the
\* parsed number elsewhere.
C9_SeriesMatch(lines) ==
    LET rows == C9_Rows(lines)
    IN  /\ Len(m_series) = Len(rows[1]) - 1
        /\ \A k \in 1..Len(m_series) :
              /\ Len(m_series[k].y) = Len(rows)
              /\ \A i \in 1..Len(rows) :
                    m_series[k].y[i] =
                        IF Lower(rows[i][k + 1]) = <<"n", "/", "a">> THEN NaN
                        ELSE PyFloat(rows[i][k + 1])

C9_SingleLineRejected ==
    (m_seen # <<>> /\ C9_HeaderLines(m_seen) = 1) => m_exit = "error"

C6_ParsedRows(lines) ==
    LET datas == SelectSeq(lines, IsDataLine)
        toks  == [i \in 1..Len(datas) |-> Split(ReplaceBrackets(datas[i]))]
    IN  [i \in 1..(Len(toks) - 1) |->
            [c \in 1..Len(toks[i + 1]) |-> DigitRunVal(toks[i + 1][c], 0)]]

\* The number of contributions the header declares: the entries between
\* 'forces(' and ')' in the first line, 0 when it declares none.
C6_Declared(lines) ==
    LET toks == Split(lines[1])
    IN  IF Len(toks) >= 2 /\ StartsWith(toks[2], ForcesWord) THEN Len(toks) - 1 ELSE 0

\* The sum over k in [0,n) of column first + 3k of a row (columns from 0).
RECURSIVE C6_Sum(_, _, _, _)
C6_Sum(row, first, n, k) ==
    IF k >= n THEN 0 ELSE row[first + 3 * k + 1] + C6_Sum(row, first, n, k + 1)

\* A table is the aggregate of the columns that start at column base.
C6_IsAggregate(plot, base, n) ==
    LET parsed == C6_ParsedRows(r_lines)
    IN  /\ Len(plot.columns) = 4
        /\ Len(plot.rows) = Len(parsed)
        /\ \A i \in 1..Len(parsed) :
              /\ Len(plot.rows[i]) = 4
              /\ plot.rows[i][1] = Num(parsed[i][1])
              /\ \A a \in 0..2 :
                    plot.rows[i][a + 2] = Num(C6_Sum(parsed[i], base + a, n, 0))

\* C6: for a force file whose header declares n contributions (n in 1..3) and
\* whose rows hold 1 + 6n columns, two tables are plotted; in every row of them
\* Time is column 0 of the parsed row, the force of axis a is the sum over k of
\* column 1 + a + 3k, the moment of axis a the sum over k of column
\* 1 + 3n + a + 3k, and each table has exactly 4 columns.
C6_Aggregation ==
    (/\ r_pc = "done"
     /\ Len(r_lines) >= 2
     /\ C6_Declared(r_lines) \in 1..3
     /\ \A i \in 2..Len(r_lines) :
           Len(Split(ReplaceBrackets(r_lines[i]))) = 1 + 6 * C6_Declared(r_lines)) =>
        /\ ~r_raised
        /\ Len(r_plots) = 2
        /\ r_plots[1].filesuffix = <<"f", "o", "r", "c", "e", "s">>
        /\ r_plots[2].filesuffix = <<"m", "o", "m", "e", "n", "t", "s">>
        /\ C6_IsAggregate(r_plots[1], 1, C6_Declared(r_lines))
        /\ C6_IsAggregate(r_plots[2], 1 + 3 * C6_Declared(r_lines), C6_Declared(r_lines))

\* A file of two contributions whose plotted row has its second viscous moment
\* entry set: it shows in the y component of the moments only.
C6_Witness ==
    /\ r_pc = "done"
    /\ Len(r_lines) = 3
    /\ C6_Declared(r_lines) = 2
    /\ Len(r_plots) = 2
    /\ Len(r_plots[2].rows) = 1
    /\ Len(C6_ParsedRows(r_lines)[1]) = 13
    /\ C6_ParsedRows(r_lines)[1][12] = 1
    /\ r_plots[2].rows[1][3] = Num(1)
    /\ r_plots[2].rows[1][2] = Num(0)
    /\ r_plots[1].rows[1][3] = Num(0)

\* The rows of a series file, as tokens.
C7_Rows(lines) ==
    LET datas == SelectSeq(lines, IsDataLine)
    IN  [i \in 1..Len(datas) |-> Split(datas[i])]

\* The position of a label, 0 when the label row does not hold it.
C7_At(labels, name) ==
    IF \E c \in 1..Len(labels) : labels[c] = name
    THEN CHOOSE c \in 1..Len(labels) : labels[c] = name
    ELSE 0

\* The distinct values of column c, in the order of their first occurrence.
C7_Distinct(rows, c) ==
    LET vals    == {rows[i][c] : i \in 1..Len(rows)}
        first(v) == CHOOSE i \in 1..Len(rows) :
                       rows[i][c] = v /\ \A j \in 1..(i - 1) : rows[j][c] # v
    IN  [k \in 1..Cardinality(vals) |->
            CHOOSE v \in vals : Cardinality({w \in vals : first(w) < first(v)}) = k - 1]

\* The rows of a patch, in file order.
C7_RowsOf(rows, pcol, p) == SelectSeq(rows, LAMBDA row : row[pcol] = p)

\* A column is a statistic column: its name starts with min, max or average.
C7_IsStatistic(name) ==
    \/ StartsWith(name, <<"m", "i", "n">>)
    \/ StartsWith(name, <<"m", "a", "x">>)
    \/ StartsWith(name, <<"a", "v", "e", "r", "a", "g", "e">>)

\* The columns that are plotted: all but Time and patch, in order.
C7_Plotted(labels) ==
    SelectSeq([c \in 1..Len(labels) |-> c],
              LAMBDA c : labels[c] \notin {TimeName, PatchName})

\* The name of a series as C7 states it: '<patch> <field> <statistic>'.
C7_NameAsClaimed(patch, col) ==
    patch \o <<" ">> \o PathStem(r_filepath) \o <<" ">> \o col

\* The name of a series: '<patch> <field> <statistic>' for a statistic
\* column, '<patch> <column>' for any other column.
C7_Name(patch, col) ==
    IF C7_IsStatistic(col) THEN patch \o <<" ">> \o PathStem(r_filepath) \o <<" ">> \o col
    ELSE patch \o <<" ">> \o col

\* For a multi-patch table in which each patch reports one row per time value
\* (and, when in_order, reports them in the order of the distinct time
\* sequence): every plotted table has 1 + P columns, named by series_name, and
\* T rows, and row i of the series of patch p is the value of the patch at the
\* i-th distinct time.
C7_Reshaping(series_name(_, _), in_order) ==
    LET labels  == ReadLabels(r_lines).labels
        rows    == C7_Rows(r_lines)
        tcol    == C7_At(labels, TimeName)
        pcol    == C7_At(labels, PatchName)
        patches == C7_Distinct(rows, pcol)
        times   == C7_Distinct(rows, tcol)
        of      == [k \in 1..Len(patches) |-> C7_RowsOf(rows, pcol, patches[k])]
        plotted == C7_Plotted(labels)
        once    == \A k \in 1..Len(patches) : \A t \in 1..Len(times) :
                      Cardinality({i \in 1..Len(of[k]) : of[k][i][tcol] = times[t]}) = 1
        ordered == \A k \in 1..Len(patches) :
                      [i \in 1..Len(of[k]) |-> of[k][i][tcol]] = times
        at(k, t, c) == LET i == CHOOSE j \in 1..Len(of[k]) : of[k][j][tcol] = times[t]
                       IN  Num(DigitRunVal(of[k][i][c], 0))
    IN  (/\ r_pc = "done"
         /\ rows # <<>>
         /\ tcol # 0 /\ pcol # 0
         /\ once
         /\ in_order => ordered) =>
            /\ ~r_raised
            /\ Len(r_plots) = Len(plotted)
            /\ \A j \in 1..Len(r_plots) :
                  /\ Len(r_plots[j].columns) = 1 + Len(patches)
                  /\ r_plots[j].columns[1] = TimeName
                  /\ \A k \in 1..Len(patches) :
                        r_plots[j].columns[k + 1] =
                            series_name(patches[k], labels[plotted[j]])
                  /\ Len(r_plots[j].rows) = Len(times)
                  /\ \A i \in 1..Len(r_plots[j].rows) :
                        /\ r_plots[j].rows[i][1] = Num(DigitRunVal(times[i], 0))
                        /\ \A k \in 1..Len(patches) :
                              r_plots[j].rows[i][k + 1] = at(k, i, plotted[j])

\* C7 as stated: for a table with P patches and T time values in which each
\* patch reports one row per time value, every plotted table has 1 + P columns
\* named '<patch> <field> <statistic>' and T rows, and row i of the series of
\* patch p is the value of the patch at the i-th distinct time.
C7_AsClaimed == C7_Reshaping(C7_NameAsClaimed, FALSE)

\* C7 amended: for a table with P patches and T time values in which each
\* patch reports one row per time value, in the order of the distinct time
\* sequence, every plotted table has 1 + P columns and T rows, the series of a
\* patch is named '<patch> <field> <statistic>' for a statistic column and
\* '<patch> <column>' otherwise, and row i of the series of patch p is the
\* value of the patch at the i-th distinct time.
C7_PatchSeries == C7_Reshaping(C7_Name, TRUE)

\* C7 as stated fails for the order of the rows alone: with the names of the
\* amended claim and without the order of the rows, it does not hold.
C7_AnyOrder == C7_Reshaping(C7_Name, FALSE)

\* A table of two patches and two times, patch after patch and each in time
\* order, has been reshaped into two tables of three columns and two rows.
C7_Witness ==
    /\ r_pc = "done"
    /\ Len(r_lines) = 5
    /\ C7_Rows(r_lines) = <<Split(DatLine(1, 1)), Split(DatLine(2, 1)),
                            Split(DatLine(1, 2)), Split(DatLine(2, 2))>>
    /\ Len(r_plots) = 2
    /\ Len(r_plots[1].columns) = 3
    /\ Len(r_plots[1].rows) = 2
    /\ r_plots[1].rows[1][3] # r_plots[1].rows[2][3]

\* A name without its slashes, backslashes and spaces.
C10_Clean(name) == SelectSeq(name, LAMBDA ch : ch \notin {"/", "\\", " "})

\* The timestep part of an output name: the directory of the file when it
\* reads as a number other than the text '0'.
C10_Timestep ==
    LET dir == r_filepath[Len(r_filepath) - 1]
    IN  IF PyFloat(dir).ok /\ dir # <<"0">> THEN <<"_">> \o dir ELSE <<>>

\* For every statistic column of a multi-patch table the plotter is invoked
\* with suffix(column) as suffix and the output is named
\* baseName_<suffix without slashes, backslashes and spaces>[_timestep] +
\* extension; two statistic columns whose suffixes differ without those
\* characters have distinct output paths.
C10_Naming(suffix(_)) ==
    LET labels  == ReadLabels(r_lines).labels
        plotted == C7_Plotted(labels)
        stats   == SelectSeq([j \in 1..Len(plotted) |-> j],
                             LAMBDA j : C7_IsStatistic(labels[plotted[j]]))
        name(k) == suffix(labels[plotted[stats[k]]])
    IN  (/\ r_pc = "done"
         /\ ~r_raised
         /\ C7_At(labels, TimeName) # 0
         /\ C7_At(labels, PatchName) # 0) =>
            /\ Len(r_plots) = Len(plotted)
            /\ \A k \in 1..Len(stats) :
                  /\ r_plots[stats[k]].filesuffix = name(k)
                  /\ PathName(r_plots[stats[k]].outfilepath) =
                        PathStem(r_filepath) \o <<"_">> \o C10_Clean(name(k))
                        \o C10_Timestep \o EXTENSION
            /\ \A k \in 1..Len(stats) : \A l \in 1..Len(stats) :
                  (k # l /\ C10_Clean(name(k)) # C10_Clean(name(l))) =>
                     r_plots[stats[k]].outfilepath # r_plots[stats[l]].outfilepath

\* The original name of a column.
C10_Original(col) == col

\* The name of a statistic column after renaming: '<field> <statistic>'.
C10_Renamed(col) == PathStem(r_filepath) \o <<" ">> \o col

\* C10 as stated: for every statistic column of a multi-patch table the
\* plotter is invoked with the original name of the column as suffix, so the
\* outputs are named baseName_<statistic>[_timestep] + extension and distinct
\* statistic columns have distinct output paths.
C10_AsClaimed == C10_Naming(C10_Original)

\* C10 amended: for every statistic column of a multi-patch table the plotter
\* is invoked with the renamed column '<field> <statistic>' as suffix, so the
\* outputs are named baseName_<field><statistic>[_timestep] + extension with
\* slashes, backslashes and spaces removed from the suffix, and two statistic
\* columns whose names differ without those characters have distinct output
\* paths.
C10_OutputNaming == C10_Naming(C10_Renamed)

\* A file with the statistic columns min and max, in a timestep directory, has
\* been plotted to two distinct paths.
C10_Witness ==
    /\ r_pc = "done"
    /\ ~r_raised
    /\ Len(r_plots) = 2
    /\ r_plots[1].filesuffix = <<"f", " ", "m", "i", "n">>
    /\ r_plots[2].filesuffix = <<"f", " ", "m", "a", "x">>
    /\ C10_Timestep = <<"_", "3">>
    /\ r_plots[1].outfilepath # r_plots[2].outfilepath

\* The field set vtk2image selects: the cell fields when there are any.
C11_Selected ==
    IF v_mesh.cell_data # <<>> THEN v_mesh.cell_data ELSE v_mesh.point_data

\* A 3-component field: one row of three values per element.
C11_IsVector(field) == Len(field.shape) = 2 /\ field.shape[2] = 3

\* The renderable fields the statement gives a field of the file, each with
\* its colormap: none for a field of zero elements, the three components and
\* the magnitude for a vector, the field itself otherwise.
C11_Expected(field) ==
    LET units == GetUnits(field.name)
        cmap  == IF field.name \in DOMAIN COLORMAPS THEN COLORMAPS[field.name]
                 ELSE DEFAULT_COLORMAP
        One(suffix, comp) ==
            [name |-> field.name \o suffix \o units, src |-> field.name,
             comp |-> comp, cmap |-> cmap]
    IN  IF field.shape[1] = 0 THEN {}
        ELSE IF C11_IsVector(field)
        THEN {One(COMPONENTS_EXT[k], k) : k \in 1..3} \cup {One(MAGNITUDE_EXT, 0)}
        ELSE {One(<<>>, 0)}

\* vtk2image ended without an exception, every field of the selected set has
\* the renderable fields of the statement and no other, and the images are
\* one per renderable field, in its colormap.
C11_Prepared ==
    LET sel  == C11_Selected
        want == UNION {C11_Expected(sel[i]) : i \in 1..Len(sel)}
    IN  /\ ~v_raised
        /\ \A i \in 1..Len(sel) :
              Cardinality({d \in 1..Len(v_data) : v_data[d].src = sel[i].name})
              = Cardinality(C11_Expected(sel[i]))
        /\ {[name |-> v_data[d].name, src |-> v_data[d].src, comp |-> v_data[d].comp] :
               d \in 1..Len(v_data)}
           = {[name |-> w.name, src |-> w.src, comp |-> w.comp] : w \in want}
        /\ Len(v_images) = Len(v_data)
        /\ \A d \in 1..Len(v_data) :
              /\ v_images[d].scalars = v_data[d].name
              /\ \E w \in want : w.name = v_data[d].name /\ w.cmap = v_images[d].cmap

\* C11 as stated: for a mesh whose selected field set is non-empty, every
\* field of zero elements is dropped, every 3-component field yields exactly
\* four renderable fields (its components '<field><axisSuffix><units>' and the
\* original array as '<field><magnitudeSuffix><units>'), every other field,
\* whatever its number of elements, yields exactly one named '<field><units>',
\* and exactly one image is written per renderable field, in the colormap of
\* its source field or the default one.
C11_AsClaimed == (v_pc = "done" /\ C11_Selected # <<>>) => C11_Prepared

\* No field of one dimension has exactly three elements.
C11_NoThreeElementScalar ==
    \A i \in 1..Len(C11_Selected) :
        Len(C11_Selected[i].shape) = 1 => C11_Selected[i].shape[1] # 3

\* The renderable names of two fields never meet.
C11_DistinctNames ==
    \A i, j \in 1..Len(C11_Selected) :
        i # j =>
           /\ \A a \in C11_Expected(C11_Selected[i]) :
                 \A b \in C11_Expected(C11_Selected[j]) : a.name # b.name
           /\ \A a \in C11_Expected(C11_Selected[i]) : a.name # C11_Selected[j].name

\* C11 where the code meets it: the statement holds of every mesh without a
\* three-element field of one dimension whose renderable names are distinct.
C11_FieldPreparation ==
    (v_pc = "done" /\ C11_Selected # <<>> /\ C11_NoThreeElementScalar /\ C11_DistinctNames)
        => C11_Prepared

\* A vector and a scalar of one element each, rendered as five images.
C11_Witness ==
    /\ v_pc = "done"
    /\ ~v_raised
    /\ Len(v_mesh.cell_data) = 2
    /\ C11_IsVector(v_mesh.cell_data[1])
    /\ v_mesh.cell_data[2].shape = <<1>>
    /\ Len(v_images) = 5

\* A scalar field of three elements ends vtk2image with an exception and no
\* image.
C11_ThreeElementScalar ==
    /\ v_pc = "done"
    /\ v_mesh.cell_data = <<Array(<<"p">>, <<3>>)>>
    /\ v_raised
    /\ v_images = <<>>

\* The data rows of a force file: the numbers of its lines that are not
\* comments, every one of them.
C12_DataRows(lines) ==
    LET datas == SelectSeq(lines, IsDataLine)
    IN  [i \in 1..Len(datas) |->
            [c \in 1..Len(Split(ReplaceBrackets(datas[i]))) |->
                DigitRunVal(Split(ReplaceBrackets(datas[i]))[c], 0)]]

\* The rows of a plotted table are the given rows, one for one and in order:
\* the same Time and the sums of the same row.
C12_Table(plot, rows, base, n) ==
    /\ Len(plot.rows) = Len(rows)
    /\ \A i \in 1..Len(rows) :
          /\ plot.rows[i][1] = Num(rows[i][1])
          /\ \A a \in 0..2 : plot.rows[i][a + 2] = Num(C6_Sum(rows[i], base + a, n, 0))

\* Every table plotted from a file of at least one data row holds the rows
\* that are left of its data rows when the first `lost` of them are taken away.
C12_Rows(lost) ==
    (r_pc = "done" /\ r_plots # <<>> /\ Len(C12_DataRows(r_lines)) >= 1) =>
        LET n    == C6_Declared(r_lines)
            rows == C12_DataRows(r_lines)
            kept == SubSeq(rows, lost + 1, Len(rows))
        IN  \A p \in 1..Len(r_plots) :
               C12_Table(r_plots[p], kept, IF p = 1 THEN 1 ELSE 1 + 3 * n, n)

\* C12 as stated: for a force file with R data rows that are not comments,
\* the plotted force table and the plotted moment table each have exactly R
\* rows, one per data row in file order: no data row, the first one in
\* particular, is lost or taken for the column header.
C12_AsClaimed == C12_Rows(0)

\* What the code does instead: the first data row is taken for the column
\* header, and the tables hold the R - 1 rows after it, in file order.
C12_FirstRowConsumed == C12_Rows(1)

\* A file of two data rows whose tables have one row each.
C12_FirstRowLost ==
    /\ r_pc = "done"
    /\ ~r_raised
    /\ Len(C12_DataRows(r_lines)) = 2
    /\ Len(r_plots) = 2
    /\ Len(r_plots[1].rows) = 1
    /\ Len(r_plots[2].rows) = 1

====
